---- MODULE Spec2Model ----
(***************************************************************************)
(* State-machine model of the AgentHelp single-page application:           *)
(*   App (src/App.tsx 1-76), AuthService (src/unnamed/part_001 1-161),     *)
(*   Dashboard (src/unnamed/part_000), the two AssignmentView versions     *)
(*   (src/App.tsx 77-358 "Classroom-submit", 359-751 "Drive-upload") and   *)
(*   the two ClassroomApiService versions (part_001 162-333, part_002).    *)
(* Every handler, effect and promise continuation is one action; external  *)
(* services answer nondeterministically (success or failure).              *)
(***************************************************************************)
EXTENDS Integers, Sequences, FiniteSets, TLC

\* ---------------------------------------------------------------- bounds
\* the whole application (Spec)
MaxRevokes == 1
MaxSignIns == 1
MaxViews == 1
MaxSelects == 1
\* sign-ins, course selections and openings of an assignment of one run, in total
MaxStarts == 3
\* course selections of the Dashboard on its own (SpecDash)
MaxSelectsDash == 2
\* openings of assignments of the AssignmentView on its own (SpecView)
MaxViewsView == 2
\* files handed to the API methods on their own (SpecApi)
MaxUploadFiles == 2
\* sign-in clicks of the AuthService on its own (SpecAuth)
MaxSignInsAuth == 3

\* ------------------------------------------------------- program constants
PollIntervalMs == 100
LoadDeadlineMs == 10000

NULL == "null"

Placeholders == {"YOUR_GOOGLE_CLIENT_ID", "YOUR_API_KEY", "YOUR_GEMINI_API_KEY"}

\* String.prototype.startsWith('YOUR_') on the credential strings
StartsWithYOUR(s) == s \in Placeholders

ConfigErrorMsg == "API keys are not configured. Please add your credentials in services/env.ts."
ScriptsTimeoutMsg == "Google API scripts failed to load in time."
GapiLoadErrorMsg == "GAPI client script failed to load."
ClientInitErrorMsg == "Could not initialize Google APIs."

VARIABLES
    GOOGLE_CLIENT_ID, API_KEY, GEMINI_API_KEY, version,
    isInitialized, user, initError,
    tokenClient, token, initPc, elapsed, gapiPresent, googlePresent,
    tokenRequests, profileFetches, revokes, signIns,
    dashId, dashCount, courses, assignments, selectedCourse, selectedAssignment,
    isCoursesLoading, isAssignmentsLoading, dashError, selects,
    viewId, viewCount, status, error, generatedFiles, zipBlob, driveFileLinks,
    submissionStatus, attachmentContents,
    ops, promise, lim

configVars == <<GOOGLE_CLIENT_ID, API_KEY, GEMINI_API_KEY, version, lim>>
appVars == <<isInitialized, user, initError>>
initVars == <<initPc, elapsed, gapiPresent, googlePresent>>
authVars == <<tokenClient, token, tokenRequests, profileFetches, revokes, signIns>>
dashVars == <<dashId, dashCount, courses, assignments, selectedCourse, selectedAssignment,
              isCoursesLoading, isAssignmentsLoading, dashError, selects>>
viewVars == <<viewId, viewCount, status, error, generatedFiles, zipBlob, driveFileLinks,
              submissionStatus, attachmentContents>>
vars == <<configVars, appVars, initVars, authVars, dashVars, viewVars, ops, promise>>

\* promise: the settled promise of an API method that was called directly
\* (not from a component); lim: the bounds on the counters of the run

\* ------------------------------------------------------------------ data
\* nullable object values are sequences of length 0 (null) or 1
Null == <<>>
Some(x) == <<x>>

CourseIds == {"c1", "c2"}

\* bodies the courses.list endpoint may answer with (response.result.courses)
CourseLists == {<<>>, <<"c1", "c2">>}

Att(id, title, mime) == [id |-> id, title |-> title, mimeType |-> mime]

\* materials of the course work items; d1 and d2 share a title
AttachmentsOf(w) ==
    CASE w = "a1" -> <<Att("d1", "notes", "gdoc"), Att("d3", "sheet", "other")>>
      [] w = "a2" -> <<Att("d1", "notes", "gdoc"), Att("d2", "notes", "pdf")>>
      [] OTHER -> <<>>

\* strings that the code takes apart are sequences of tokens; "." and the
\* whitespace tokens stand for themselves
Whitespace == {" ", "\t"}

TitleOf(w) ==
    CASE w = "a1" -> <<"Lab", " ", "\t", "1">>
      [] w = "a2" -> <<"Essay">>
      [] OTHER -> <<" ", "Quiz", " ", "3">>

\* bodies the courseWork.list endpoint may answer with for a course
CourseWorkLists(c) ==
    IF c = "c1" THEN {<<>>, <<"a1", "a3">>} ELSE {<<"a2">>}

\* bodies the studentSubmissions.list endpoint may answer with: the set of
\* course work ids that have a submission of the user
SubmissionSets(work) == {{}, {work[i] : i \in 1..Len(work)}}

\* ------------------------------------------------------------ App render
\* src/App.tsx 36-73 and Dashboard src/unnamed/part_000 56-58
Screen ==
    IF initError # NULL THEN "InitFailed"
    ELSE IF ~isInitialized THEN "Spinner"
    ELSE IF user # NULL
         THEN IF selectedAssignment # Null /\ selectedCourse # NULL
              THEN "AssignmentView"
              ELSE "Dashboard"
         ELSE "LandingPage"

\* ------------------------------------------------- component state resets
\* AssignmentView useState initialisers (App.tsx 125-130, 401-407); also the
\* value the view variables take while no AssignmentView is mounted
ViewBlank ==
    /\ status' = "IDLE"
    /\ error' = NULL
    /\ generatedFiles' = <<>>
    /\ zipBlob' = Null
    /\ driveFileLinks' = <<>>
    /\ submissionStatus' = "IDLE"
    /\ attachmentContents' = {}

ViewUnmount ==
    /\ viewId' = 0
    /\ ViewBlank
    /\ UNCHANGED viewCount

\* Dashboard useState initialisers (part_000 13-19) followed by the mount
\* effect (part_000 21-35), which issues getCourses
DashboardMount ==
    /\ dashCount' = dashCount + 1
    /\ dashId' = dashCount + 1
    /\ courses' = <<>>
    /\ assignments' = <<>>
    /\ selectedCourse' = NULL
    /\ selectedAssignment' = Null
    /\ isCoursesLoading' = TRUE
    /\ isAssignmentsLoading' = FALSE
    /\ dashError' = NULL
    /\ UNCHANGED selects
    /\ ops' = ops \cup {[kind |-> "getCourses", inst |-> dashCount + 1, pc |-> "list"]}

DashboardUnmount ==
    /\ dashId' = 0
    /\ courses' = <<>>
    /\ assignments' = <<>>
    /\ selectedCourse' = NULL
    /\ selectedAssignment' = Null
    /\ isCoursesLoading' = FALSE
    /\ isAssignmentsLoading' = FALSE
    /\ dashError' = NULL
    /\ UNCHANGED selects
    /\ UNCHANGED dashCount
    /\ ViewUnmount

\* ------------------------------------------------------------------ Init
Init ==
    /\ GOOGLE_CLIENT_ID \in {"YOUR_GOOGLE_CLIENT_ID", "client-id"}
    /\ API_KEY \in {"YOUR_API_KEY", "api-key"}
    /\ GEMINI_API_KEY \in {"YOUR_GEMINI_API_KEY", "gemini-key"}
    /\ version \in {"submit", "drive"}
    /\ (version = "drive" => GEMINI_API_KEY = "YOUR_GEMINI_API_KEY")
    /\ isInitialized = FALSE /\ user = NULL /\ initError = NULL
    /\ tokenClient = NULL /\ token = NULL
    /\ initPc = "unmounted" /\ elapsed = 0
    /\ gapiPresent = FALSE /\ googlePresent = FALSE
    /\ tokenRequests = 0 /\ profileFetches = 0 /\ revokes = 0 /\ signIns = 0
    /\ dashId = 0 /\ dashCount = 0 /\ courses = <<>> /\ assignments = <<>>
    /\ selectedCourse = NULL /\ selectedAssignment = Null
    /\ isCoursesLoading = FALSE /\ isAssignmentsLoading = FALSE
    /\ dashError = NULL /\ selects = 0
    /\ viewId = 0 /\ viewCount = 0 /\ status = "IDLE" /\ error = NULL
    /\ generatedFiles = <<>> /\ zipBlob = Null /\ driveFileLinks = <<>>
    /\ submissionStatus = "IDLE" /\ attachmentContents = {}
    /\ ops = {}
    /\ promise = <<>>
    /\ lim = [signIns |-> MaxSignIns, revokes |-> MaxRevokes, selects |-> MaxSelects,
              views |-> MaxViews, starts |-> MaxStarts]

\* ------------------------------------------------- App init / initClient
\* variant of InitRejected: an init effect whose catch swallows the error
\* message
InitRejectedSilently(msg) ==
    /\ initError' = NULL
    /\ isInitialized' = TRUE
    /\ initPc' = "rejected"
    /\ elapsed' = 0
    /\ UNCHANGED user

\* App catch + finally (App.tsx 19-23) after initClient rejected with msg
InitRejected(msg) ==
    /\ initError' = msg
    /\ isInitialized' = TRUE
    /\ initPc' = "rejected"
    /\ elapsed' = 0
    /\ UNCHANGED user

\* variant of CheckGapiAndGsi: a check that goes on as soon as one of the
\* two scripts is present
CheckGapiAndGsiEither(t) ==
    IF t > LoadDeadlineMs
    THEN InitRejected(ScriptsTimeoutMsg)
    ELSE /\ initPc' = (IF gapiPresent \/ googlePresent THEN "gapiLoad" ELSE "polling")
         /\ elapsed' = t
         /\ UNCHANGED appVars

\* checkGapiAndGsi (part_001 58-71) run at elapsed time t
CheckGapiAndGsi(t) ==
    IF t > LoadDeadlineMs
    THEN InitRejected(ScriptsTimeoutMsg)
    ELSE /\ initPc' = (IF gapiPresent /\ googlePresent THEN "gapiLoad" ELSE "polling")
         /\ elapsed' = t
         /\ UNCHANGED appVars

\* variant of AppMount: a placeholder test that rejects only when both ids
\* are placeholders
AppMountBothPlaceholders ==
    /\ initPc = "unmounted"
    /\ IF StartsWithYOUR(GOOGLE_CLIENT_ID) /\ StartsWithYOUR(API_KEY)
       THEN InitRejected(ConfigErrorMsg)
       ELSE CheckGapiAndGsi(0)
    /\ UNCHANGED <<configVars, promise, gapiPresent, googlePresent, authVars, dashVars, viewVars, ops>>

\* App mount effect (App.tsx 12-26) up to the first suspension of initClient
AppMount ==
    /\ initPc = "unmounted"
    /\ IF StartsWithYOUR(GOOGLE_CLIENT_ID) \/ StartsWithYOUR(API_KEY)
       THEN InitRejected(ConfigErrorMsg)
       ELSE CheckGapiAndGsi(0)
    /\ UNCHANGED <<configVars, promise, gapiPresent, googlePresent, authVars, dashVars, viewVars, ops>>

\* the two <script> tags of the page finish loading
GapiScriptLoaded ==
    /\ ~gapiPresent
    /\ gapiPresent' = TRUE
    /\ UNCHANGED <<configVars, promise, appVars, initPc, elapsed, googlePresent, authVars, dashVars, viewVars, ops>>

GsiScriptLoaded ==
    /\ ~googlePresent
    /\ googlePresent' = TRUE
    /\ UNCHANGED <<configVars, promise, appVars, initPc, elapsed, gapiPresent, authVars, dashVars, viewVars, ops>>

\* variant of PollTimer: a poll that never looks at the deadline
PollTimerNoDeadline ==
    /\ initPc = "polling"
    /\ initPc' = (IF gapiPresent /\ googlePresent THEN "gapiLoad" ELSE "polling")
    /\ UNCHANGED <<elapsed, appVars>>
    /\ UNCHANGED <<configVars, promise, gapiPresent, googlePresent, authVars, dashVars, viewVars, ops>>

\* setTimeout(checkGapiAndGsi, 100) fires (part_001 69)
PollTimer ==
    /\ initPc = "polling"
    /\ CheckGapiAndGsi(elapsed + PollIntervalMs)
    /\ UNCHANGED <<configVars, promise, gapiPresent, googlePresent, authVars, dashVars, viewVars, ops>>

\* gapi.load 'client' callback (part_001 65): the wait promise resolves and
\* gapi.client.init is called (part_001 77)
GapiLoadCallback ==
    /\ initPc = "gapiLoad"
    /\ initPc' = "clientInit"
    /\ elapsed' = 0
    /\ UNCHANGED <<configVars, promise, appVars, gapiPresent, googlePresent, authVars, dashVars, viewVars, ops>>

\* gapi.load onerror (part_001 66)
GapiLoadError ==
    /\ initPc = "gapiLoad"
    /\ InitRejected(GapiLoadErrorMsg)
    /\ UNCHANGED <<configVars, promise, gapiPresent, googlePresent, authVars, dashVars, viewVars, ops>>

\* gapi.client.init resolved, initTokenClient returned (part_001 86-94),
\* initClient resolves, App finally (App.tsx 22)
ClientInitResolved ==
    /\ initPc = "clientInit"
    /\ tokenClient' = "tokenClient"
    /\ initPc' = "resolved"
    /\ isInitialized' = TRUE
    /\ UNCHANGED <<configVars, promise, user, initError, elapsed, gapiPresent, googlePresent,
                   token, tokenRequests, profileFetches, revokes, signIns, dashVars, viewVars, ops>>

\* gapi.client.init rejected or initTokenClient threw (part_001 95-100)
ClientInitRejected ==
    /\ initPc = "clientInit"
    /\ InitRejected(ClientInitErrorMsg)
    /\ UNCHANGED <<configVars, promise, gapiPresent, googlePresent, authVars, dashVars, viewVars, ops>>

\* --------------------------------------------------------- AuthService
\* signOut (part_001 119-127): revoke is requested only when a token is held
SignOut ==
    IF token # NULL
    THEN revokes' = revokes + 1
    ELSE UNCHANGED revokes

\* LandingPage button -> handleLogin -> signIn (App.tsx 28-30, part_001 106-114)
SignInClick ==
    /\ Screen = "LandingPage"
    /\ signIns < lim.signIns
    /\ signIns + selects + viewCount < lim.starts
    /\ signIns' = signIns + 1
    /\ IF tokenClient # NULL
       THEN /\ tokenRequests' = tokenRequests + 1
       ELSE /\ UNCHANGED tokenRequests
    /\ UNCHANGED <<configVars, promise, appVars, initVars, tokenClient, token, profileFetches,
                   revokes, dashVars, viewVars, ops>>

\* variant of TokenCallback: a callback that fetches the profile whatever
\* the token response holds
TokenCallbackAlwaysFetches(granted) ==
    /\ tokenRequests > 0
    /\ tokenRequests' = tokenRequests - 1
    /\ token' = (IF granted THEN "token" ELSE token)
    /\ profileFetches' = profileFetches + 1
    /\ UNCHANGED <<configVars, promise, appVars, initVars, tokenClient, revokes, signIns,
                   dashVars, viewVars, ops>>

\* token client callback (part_001 89-93); on a grant the identity library
\* has stored the token in gapi.client before calling back
TokenCallback(granted) ==
    /\ tokenRequests > 0
    /\ tokenRequests' = tokenRequests - 1
    /\ IF granted
       THEN /\ token' = "token"
            /\ profileFetches' = profileFetches + 1
       ELSE /\ UNCHANGED <<token, profileFetches>>
    /\ UNCHANGED <<configVars, promise, appVars, initVars, tokenClient, revokes, signIns,
                   dashVars, viewVars, ops>>

\* fetchUserProfile try branch (part_001 134-144) and App onLogin (App.tsx 16)
FetchUserProfileResolved ==
    /\ profileFetches > 0
    /\ profileFetches' = profileFetches - 1
    /\ user' = "profile"
    /\ IF user = NULL
       THEN /\ DashboardMount
            /\ UNCHANGED viewVars
       ELSE /\ UNCHANGED <<dashVars, viewVars, ops>>
    /\ UNCHANGED <<configVars, promise, isInitialized, initError, initVars, tokenClient, token,
                   tokenRequests, revokes, signIns>>

\* fetchUserProfile catch branch (part_001 145-148)
FetchUserProfileRejected ==
    /\ profileFetches > 0
    /\ profileFetches' = profileFetches - 1
    /\ SignOut
    /\ UNCHANGED <<configVars, promise, appVars, initVars, tokenClient, token, tokenRequests,
                   signIns, dashVars, viewVars, ops>>

\* Dashboard Disconnect button -> handleLogout -> signOut (part_000 73-80)
DisconnectClick ==
    /\ Screen = "Dashboard"
    /\ revokes < lim.revokes
    /\ SignOut
    /\ UNCHANGED <<configVars, promise, appVars, initVars, tokenClient, token, tokenRequests,
                   profileFetches, signIns, dashVars, viewVars, ops>>

\* revoke callback (part_001 122-125) and App onLogout (App.tsx 17)
RevokeCallback ==
    /\ revokes > 0
    /\ revokes' = revokes - 1
    /\ token' = NULL
    /\ user' = NULL
    /\ IF user # NULL
       THEN DashboardUnmount
       ELSE UNCHANGED <<dashVars, viewVars>>
    /\ UNCHANGED <<configVars, promise, isInitialized, initError, initVars, tokenClient,
                   tokenRequests, profileFetches, signIns, ops>>

\* ------------------------------------------------------------ Dashboard
Replace(op, new) == (ops \ {op}) \cup {new}

Range(f) == {f[i] : i \in DOMAIN f}

CoursesErrorMsg == "Could not fetch courses. Please ensure you've granted Classroom permissions."
AssignmentsErrorMsg(c) ==
    IF c = "c1" THEN "Could not fetch assignments for c1." ELSE "Could not fetch assignments for c2."

\* getCourses result mapping (part_002 31-36)
CoursesWithTeachers(list, teacher) ==
    [i \in 1..Len(list) |-> [id |-> list[i], teacher |-> teacher[i]]]

\* Dashboard .then/.finally of getCourses (part_000 25-27, 32-34); a state
\* update of an unmounted Dashboard has no effect
GetCoursesFulfilled(op, result) ==
    IF op.inst = dashId
    THEN /\ courses' = result
         /\ isCoursesLoading' = FALSE
         /\ UNCHANGED <<dashId, dashCount, assignments, selectedCourse, selectedAssignment,
                        isAssignmentsLoading, dashError, selects>>
    ELSE UNCHANGED dashVars

\* courses.list resolved (part_002 15-21): every teacher lookup is issued
CoursesListResolved(op, list) ==
    /\ op \in ops /\ op.kind = "getCourses" /\ op.pc = "list"
    /\ IF list = <<>>
       THEN /\ ops' = ops \ {op}
            /\ GetCoursesFulfilled(op, <<>>)
       ELSE /\ ops' = Replace(op, [kind |-> "getCourses", inst |-> op.inst, pc |-> "teachers",
                                   list |-> list, teacher |-> [i \in 1..Len(list) |-> "pending"]])
            /\ UNCHANGED dashVars
    /\ UNCHANGED <<configVars, promise, appVars, initVars, authVars, viewVars>>

\* variant of CoursesListRejected: a catch block that only logs and sets no
\* message
CoursesListRejectedSilently(op) ==
    /\ op \in ops /\ op.kind = "getCourses" /\ op.pc = "list"
    /\ ops' = ops \ {op}
    /\ IF op.inst = dashId
       THEN /\ isCoursesLoading' = FALSE
            /\ UNCHANGED <<dashId, dashCount, courses, assignments, selectedCourse,
                           selectedAssignment, isAssignmentsLoading, selects, dashError>>
       ELSE UNCHANGED dashVars
    /\ UNCHANGED <<configVars, promise, appVars, initVars, authVars, viewVars>>

\* courses.list rejected: getCourses rejects, Dashboard .catch/.finally
\* (part_000 28-34)
CoursesListRejected(op) ==
    /\ op \in ops /\ op.kind = "getCourses" /\ op.pc = "list"
    /\ ops' = ops \ {op}
    /\ IF op.inst = dashId
       THEN /\ dashError' = CoursesErrorMsg
            /\ isCoursesLoading' = FALSE
            /\ UNCHANGED <<dashId, dashCount, courses, assignments, selectedCourse,
                           selectedAssignment, isAssignmentsLoading, selects>>
       ELSE UNCHANGED dashVars
    /\ UNCHANGED <<configVars, promise, appVars, initVars, authVars, viewVars>>

\* one users.get settled with teacher name t (part_002 22-30); when it was
\* the last one Promise.all resolves and getCourses returns
TeacherSettled(op, i, t) ==
    /\ op \in ops /\ op.kind = "getCourses" /\ op.pc = "teachers"
    /\ i \in DOMAIN op.teacher /\ op.teacher[i] = "pending"
    /\ LET teacher == [op.teacher EXCEPT ![i] = t]
       IN IF "pending" \in Range(teacher)
          THEN /\ ops' = Replace(op, [op EXCEPT !.teacher = teacher])
               /\ UNCHANGED dashVars
          ELSE /\ ops' = ops \ {op}
               /\ GetCoursesFulfilled(op, CoursesWithTeachers(op.list, teacher))
    /\ UNCHANGED <<configVars, promise, appVars, initVars, authVars, viewVars>>

\* users.get resolved, with or without result.name.fullName
TeacherResolved(op, i, hasName) ==
    TeacherSettled(op, i, IF hasName THEN "teacher-name" ELSE "N/A")

\* variant of TeacherRejected: a lookup without try/catch, whose rejection
\* rejects Promise.all and with it getCourses
TeacherRejectedUncaught(op, i) ==
    /\ op \in ops /\ op.kind = "getCourses" /\ op.pc = "teachers"
    /\ i \in DOMAIN op.teacher /\ op.teacher[i] = "pending"
    /\ ops' = ops \ {op}
    /\ IF op.inst = dashId
       THEN /\ dashError' = CoursesErrorMsg
            /\ isCoursesLoading' = FALSE
            /\ UNCHANGED <<dashId, dashCount, courses, assignments, selectedCourse,
                           selectedAssignment, isAssignmentsLoading, selects>>
       ELSE UNCHANGED dashVars
    /\ UNCHANGED <<configVars, promise, appVars, initVars, authVars, viewVars>>

\* users.get rejected: caught, console.warn, teacher stays 'N/A'
TeacherRejected(op, i) ==
    TeacherSettled(op, i, "N/A")

\* selectCourse (part_000 37-54) up to the courseWork.list request
SelectCourse(i) ==
    /\ Screen = "Dashboard"
    /\ ~isCoursesLoading
    /\ i \in DOMAIN courses
    /\ selects < lim.selects
    /\ signIns + selects + viewCount < lim.starts
    /\ selects' = selects + 1
    /\ selectedCourse' = courses[i].id
    /\ selectedAssignment' = Null
    /\ assignments' = <<>>
    /\ isAssignmentsLoading' = TRUE
    /\ dashError' = NULL
    /\ ops' = ops \cup {[kind |-> "getAssignments", inst |-> dashId, seq |-> selects + 1,
                         pc |-> "courseWork", course |-> courses[i].id]}
    /\ UNCHANGED <<configVars, promise, appVars, initVars, authVars, dashId, dashCount, courses,
                   isCoursesLoading, viewVars>>

\* courseWork.list resolved (part_002 43-54): studentSubmissions.list is issued
CourseWorkResolved(op, work) ==
    /\ op \in ops /\ op.kind = "getAssignments" /\ op.pc = "courseWork"
    /\ ops' = Replace(op, [kind |-> "getAssignments", inst |-> op.inst, seq |-> op.seq,
                           pc |-> "submissions", course |-> op.course, work |-> work])
    /\ UNCHANGED <<configVars, promise, appVars, initVars, authVars, dashVars, viewVars>>

\* getAssignments result mapping (part_002 56-85); the Classroom API answers
\* courseWork.list for a course with items of that course
AssignmentsOf(c, work, subs) ==
    [i \in 1..Len(work) |->
        [id |-> work[i], courseId |-> c, title |-> TitleOf(work[i]),
         attachments |-> AttachmentsOf(work[i]),
         studentSubmissionId |-> IF work[i] \in subs THEN "submission" ELSE NULL]]

\* studentSubmissions.list resolved: getAssignments returns, Dashboard
\* .then/.finally (part_000 44-46, 51-53)
SubmissionsResolved(op, subs) ==
    /\ op \in ops /\ op.kind = "getAssignments" /\ op.pc = "submissions"
    /\ ops' = ops \ {op}
    /\ IF op.inst = dashId
       THEN /\ assignments' = AssignmentsOf(op.course, op.work, subs)
            /\ isAssignmentsLoading' = FALSE
            /\ UNCHANGED <<dashId, dashCount, courses, selectedCourse, selectedAssignment,
                           isCoursesLoading, dashError, selects>>
       ELSE UNCHANGED dashVars
    /\ UNCHANGED <<configVars, promise, appVars, initVars, authVars, viewVars>>

\* variant of GetAssignmentsRejected: a catch block that sets the message and
\* sends the course work request again
GetAssignmentsRejectedRetries(op) ==
    /\ op \in ops /\ op.kind = "getAssignments"
    /\ ops' = Replace(op, [op EXCEPT !.pc = "courseWork"])
    /\ IF op.inst = dashId
       THEN /\ dashError' = AssignmentsErrorMsg(op.course)
            /\ isAssignmentsLoading' = FALSE
            /\ UNCHANGED <<dashId, dashCount, courses, assignments, selectedCourse,
                           selectedAssignment, isCoursesLoading, selects>>
       ELSE UNCHANGED dashVars
    /\ UNCHANGED <<configVars, promise, appVars, initVars, authVars, viewVars>>

\* either list request rejected: getAssignments rejects, Dashboard
\* .catch/.finally (part_000 47-53)
GetAssignmentsRejected(op) ==
    /\ op \in ops /\ op.kind = "getAssignments"
    /\ ops' = ops \ {op}
    /\ IF op.inst = dashId
       THEN /\ dashError' = AssignmentsErrorMsg(op.course)
            /\ isAssignmentsLoading' = FALSE
            /\ UNCHANGED <<dashId, dashCount, courses, assignments, selectedCourse,
                           selectedAssignment, isCoursesLoading, selects>>
       ELSE UNCHANGED dashVars
    /\ UNCHANGED <<configVars, promise, appVars, initVars, authVars, viewVars>>

\* ------------------------------------------------- AssignmentView: mount
\* enum Status of the two versions (App.tsx 93-102, 376-385)
StatusOrder ==
    IF version = "drive"
    THEN <<"IDLE", "FETCHING_ATTACHMENTS", "SOLVING", "GENERATING_FILES", "ZIPPING",
           "UPLOADING_TO_DRIVE", "DONE", "ERROR">>
    ELSE <<"IDLE", "SOLVING", "GENERATING_FILES", "ZIPPING", "UPLOADING", "SUBMITTING",
           "DONE", "ERROR">>

StatusNum(st) == CHOOSE n \in 1..Len(StatusOrder) : StatusOrder[n] = st

\* isSolving (App.tsx 612) / the Solve button's disabled expression (App.tsx 293)
isSolving == StatusNum(status) > StatusNum("IDLE") /\ StatusNum(status) < StatusNum("DONE")

\* contents[att.title] = content on a Record keyed by title (App.tsx 417)
Put(contents, title, content) ==
    {p \in contents : p[1] # title} \cup {<<title, content>>}

\* getAttachmentContent (part_002 88-129): the request it issues for a mime
\* type, or none when it answers at once
AttachmentCall(mime) ==
    CASE mime = "gdoc" -> "files.export"
      [] mime = "pdf" -> "files.get(media)"
      [] OTHER -> "none"

UnreadableContent == "[Content of file type"
ErrorContent == "[Error reading attachment content.]"

\* fetchAttachments completion (App.tsx 420-421)
AttachmentsFetched(op, contents) ==
    IF op.inst = viewId
    THEN /\ attachmentContents' = contents
         /\ status' = "IDLE"
         /\ UNCHANGED <<viewId, viewCount, error, generatedFiles, zipBlob, driveFileLinks,
                        submissionStatus>>
    ELSE UNCHANGED viewVars

\* Dashboard "Solve" button of assignment i (part_000 141-146), the mount of
\* AssignmentView and its attachment effect (App.tsx 409-429)
OpenAssignment(i) ==
    /\ Screen = "Dashboard"
    /\ selectedCourse # NULL
    /\ ~isAssignmentsLoading
    /\ i \in DOMAIN assignments
    /\ viewCount < lim.views
    /\ signIns + selects + viewCount < lim.starts
    /\ selectedAssignment' = Some(assignments[i])
    /\ viewId' = viewCount + 1
    /\ viewCount' = viewCount + 1
    /\ error' = NULL
    /\ generatedFiles' = <<>>
    /\ zipBlob' = Null
    /\ driveFileLinks' = <<>>
    /\ submissionStatus' = "IDLE"
    /\ LET atts == assignments[i].attachments
           pending == {k \in DOMAIN atts : AttachmentCall(atts[k].mimeType) # "none"}
           contents == {<<atts[k].title, UnreadableContent>> : k \in DOMAIN atts \ pending}
       IN IF version = "drive" /\ Len(atts) > 0
          THEN IF pending = {}
               THEN /\ attachmentContents' = contents
                    /\ status' = "IDLE"
                    /\ UNCHANGED ops
               ELSE /\ attachmentContents' = {}
                    /\ status' = "FETCHING_ATTACHMENTS"
                    /\ ops' = ops \cup {[kind |-> "attachments", inst |-> viewCount + 1,
                                         atts |-> atts, pending |-> pending,
                                         contents |-> contents]}
          ELSE /\ attachmentContents' = {}
               /\ status' = "IDLE"
               /\ UNCHANGED ops
    /\ UNCHANGED <<configVars, promise, appVars, initVars, authVars, dashId, dashCount, courses,
                   assignments, selectedCourse, isCoursesLoading, isAssignmentsLoading,
                   dashError, selects>>

\* getAttachmentContent of attachment k settled with content c
\* (part_002 97-128, App.tsx 416-421)
AttachmentSettled(op, k, c) ==
    /\ op \in ops /\ op.kind = "attachments"
    /\ k \in op.pending
    /\ LET contents == Put(op.contents, op.atts[k].title, c)
       IN IF op.pending = {k}
          THEN /\ ops' = ops \ {op}
               /\ AttachmentsFetched(op, contents)
          ELSE /\ ops' = Replace(op, [op EXCEPT !.pending = @ \ {k}, !.contents = contents])
               /\ UNCHANGED viewVars
    /\ UNCHANGED <<configVars, promise, appVars, initVars, authVars, dashVars>>

\* the Drive request of attachment k resolved
AttachmentResolved(op, k, tooLarge) ==
    /\ op \in ops /\ op.kind = "attachments" /\ k \in op.pending
    /\ (tooLarge => op.atts[k].mimeType = "pdf")
    /\ AttachmentSettled(op, k,
          IF op.atts[k].mimeType = "gdoc" THEN "text"
          ELSE IF tooLarge THEN UnreadableContent ELSE "data:")

\* the Drive request of attachment k rejected: caught inside
\* getAttachmentContent (part_002 125-128)
AttachmentRejected(op, k) ==
    /\ op \in ops /\ op.kind = "attachments" /\ k \in op.pending
    /\ AttachmentSettled(op, k, ErrorContent)

\* "Back to Assignments" (part_000 57): AssignmentView unmounts
Back ==
    /\ Screen = "AssignmentView"
    /\ selectedAssignment' = Null
    /\ ViewUnmount
    /\ UNCHANGED <<configVars, promise, appVars, initVars, authVars, dashId, dashCount, courses,
                   assignments, selectedCourse, isCoursesLoading, isAssignmentsLoading,
                   dashError, selects, ops>>

\* ------------------------------------------------- AssignmentView: solve
F(name, hw) == [name |-> name, handwritten |-> hw]

\* values of resultJson.files the AI service may answer with
AiFileLists ==
    { <<>>,
      <<F(<<"essay", ".", "txt">>, FALSE)>>,
      <<F(<<"essay", ".", "txt">>, TRUE), F(<<"essay", ".", "md">>, TRUE)>>,
      <<F(<<"main", ".", "py">>, FALSE), F(<<"notes">>, TRUE)>> }

Dots(name) == {k \in DOMAIN name : name[k] = "."}

LastDot(name) == CHOOSE k \in Dots(name) : \A j \in Dots(name) : j <= k

\* file.name.split('.').slice(0, -1).join('.') + '.pdf' (App.tsx 223, 562)
PdfName(name) ==
    (IF Dots(name) = {} THEN <<>> ELSE SubSeq(name, 1, LastDot(name) - 1)) \o <<".", "pdf">>

\* the map callback of handleSolve (App.tsx 219-228, 558-567)
FileBlobOf(file) ==
    IF file.handwritten
    THEN [name |-> PdfName(file.name), handwritten |-> TRUE, blob |-> "pdf"]
    ELSE [name |-> file.name, handwritten |-> FALSE, blob |-> "text"]

FileBlobs(files) == [k \in DOMAIN files |-> FileBlobOf(files[k])]

\* JSZip: zip.file(name, blob) for every file (App.tsx 235-237, 574-576); a
\* later entry of the same name replaces the earlier one
ZipOf(fileBlobs) == [entries |-> {fileBlobs[k].name : k \in DOMAIN fileBlobs}]

GeminiKeyErrorMsg == "Please add your Gemini API Key in components/AssignmentView.tsx"
SolveErrorMsg == "Failed to solve assignment. The AI might be unavailable or the request failed. Please try again."

\* variant of SetView: view state kept outside the component instance: an
\* update of an operation started by an earlier view lands in the view now
\* mounted
SetViewShared(op, st, er, gf, zb, dl, ss) ==
    IF viewId # 0
    THEN /\ status' = st
         /\ error' = er
         /\ generatedFiles' = gf
         /\ zipBlob' = zb
         /\ driveFileLinks' = dl
         /\ submissionStatus' = ss
         /\ UNCHANGED <<viewId, viewCount, attachmentContents>>
    ELSE UNCHANGED viewVars

\* state updates of the AssignmentView that owns op; they have no effect once
\* that view is unmounted
SetView(op, st, er, gf, zb, dl, ss) ==
    IF op.inst = viewId
    THEN /\ status' = st
         /\ error' = er
         /\ generatedFiles' = gf
         /\ zipBlob' = zb
         /\ driveFileLinks' = dl
         /\ submissionStatus' = ss
         /\ UNCHANGED <<viewId, viewCount, attachmentContents>>
    ELSE UNCHANGED viewVars

\* variant of SolveCatch: a catch block that sets the message and forgets
\* setStatus(Status.ERROR)
SolveCatchKeepsStatus(op) ==
    SetView(op, status, SolveErrorMsg, generatedFiles, zipBlob, driveFileLinks, submissionStatus)

\* catch block of handleSolve (App.tsx 243-247, 582-586)
SolveCatch(op) ==
    SetView(op, "ERROR", SolveErrorMsg, generatedFiles, zipBlob, driveFileLinks, submissionStatus)

\* variant of SolveClick: a Solve button that is never disabled
SolveClickAnyTime ==
    /\ Screen = "AssignmentView"
    /\ IF version = "submit" /\ StartsWithYOUR(GEMINI_API_KEY)
       THEN /\ error' = GeminiKeyErrorMsg
            /\ status' = "ERROR"
            /\ UNCHANGED <<generatedFiles, zipBlob, driveFileLinks, submissionStatus, ops>>
       ELSE /\ status' = "SOLVING"
            /\ error' = NULL
            /\ generatedFiles' = <<>>
            /\ zipBlob' = Null
            /\ driveFileLinks' = <<>>
            /\ submissionStatus' = "IDLE"
            /\ ops' = ops \cup {[kind |-> "solve", inst |-> viewId, pc |-> "ai", files |-> <<>>]}
    /\ UNCHANGED <<configVars, promise, appVars, initVars, authVars, dashVars, viewId, viewCount,
                   attachmentContents>>

\* Solve button -> handleSolve up to the generateContent request
\* (App.tsx 160-211 and 482-551); the button is disabled as in App.tsx 293, 655
SolveClick ==
    /\ Screen = "AssignmentView"
    /\ ~isSolving
    /\ status # "FETCHING_ATTACHMENTS"
    /\ IF version = "submit" /\ StartsWithYOUR(GEMINI_API_KEY)
       THEN /\ error' = GeminiKeyErrorMsg
            /\ status' = "ERROR"
            /\ UNCHANGED <<generatedFiles, zipBlob, driveFileLinks, submissionStatus, ops>>
       ELSE /\ status' = "SOLVING"
            /\ error' = NULL
            /\ generatedFiles' = <<>>
            /\ zipBlob' = Null
            /\ driveFileLinks' = <<>>
            /\ submissionStatus' = "IDLE"
            /\ ops' = ops \cup {[kind |-> "solve", inst |-> viewId, pc |-> "ai", files |-> <<>>]}
    /\ UNCHANGED <<configVars, promise, appVars, initVars, authVars, dashVars, viewId, viewCount,
                   attachmentContents>>

\* generateContent resolved with parsable JSON holding files
\* (App.tsx 214-217, 553-556): file generation starts
AiResolved(op, files) ==
    /\ op \in ops /\ op.kind = "solve" /\ op.pc = "ai"
    /\ ops' = Replace(op, [op EXCEPT !.pc = "gen", !.files = files])
    /\ SetView(op, "GENERATING_FILES", error, generatedFiles, zipBlob, driveFileLinks,
               submissionStatus)
    /\ UNCHANGED <<configVars, promise, appVars, initVars, authVars, dashVars>>

\* generateContent rejected (requestFailed), or its text is not valid JSON,
\* or the JSON has no files array: the catch block runs
AiFailed(op, requestFailed) ==
    /\ op \in ops /\ op.kind = "solve" /\ op.pc = "ai"
    /\ ops' = ops \ {op}
    /\ SolveCatch(op)
    /\ UNCHANGED <<configVars, promise, appVars, initVars, authVars, dashVars>>

\* variant of FilesGenerated: a handleSolve that zips whatever the number
\* of files
FilesGeneratedAlwaysZips(op) ==
    /\ op \in ops /\ op.kind = "solve" /\ op.pc = "gen"
    /\ LET fileBlobs == FileBlobs(op.files)
       IN /\ ops' = Replace(op, [op EXCEPT !.pc = "zip", !.files = fileBlobs])
          /\ SetView(op, "ZIPPING", error, fileBlobs, zipBlob, driveFileLinks,
                     submissionStatus)
    /\ UNCHANGED <<configVars, promise, appVars, initVars, authVars, dashVars>>

\* Promise.all of the file blobs resolved (App.tsx 218-242, 557-581)
FilesGenerated(op) ==
    /\ op \in ops /\ op.kind = "solve" /\ op.pc = "gen"
    /\ LET fileBlobs == FileBlobs(op.files)
       IN IF Len(fileBlobs) > 1
          THEN /\ ops' = Replace(op, [op EXCEPT !.pc = "zip", !.files = fileBlobs])
               /\ SetView(op, "ZIPPING", error, fileBlobs, zipBlob, driveFileLinks,
                          submissionStatus)
          ELSE /\ ops' = ops \ {op}
               /\ SetView(op, "DONE", error, fileBlobs, zipBlob, driveFileLinks,
                          submissionStatus)
    /\ UNCHANGED <<configVars, promise, appVars, initVars, authVars, dashVars>>

\* createHandwrittenPdf threw for a handwritten file
PdfFailed(op) ==
    /\ op \in ops /\ op.kind = "solve" /\ op.pc = "gen"
    /\ \E k \in DOMAIN op.files : op.files[k].handwritten
    /\ ops' = ops \ {op}
    /\ SolveCatch(op)
    /\ UNCHANGED <<configVars, promise, appVars, initVars, authVars, dashVars>>

\* zip.generateAsync resolved (App.tsx 238-242, 577-581)
ZipGenerated(op) ==
    /\ op \in ops /\ op.kind = "solve" /\ op.pc = "zip"
    /\ ops' = ops \ {op}
    /\ SetView(op, "DONE", error, generatedFiles, Some(ZipOf(op.files)), driveFileLinks,
               submissionStatus)
    /\ UNCHANGED <<configVars, promise, appVars, initVars, authVars, dashVars>>

\* zip.generateAsync rejected
ZipFailed(op) ==
    /\ op \in ops /\ op.kind = "solve" /\ op.pc = "zip"
    /\ ops' = ops \ {op}
    /\ SolveCatch(op)
    /\ UNCHANGED <<configVars, promise, appVars, initVars, authVars, dashVars>>

\* ---------------------------------------- uploadFilesToDrive (part_002)
RECURSIVE DropWs(_)
DropWs(t) == IF t # <<>> /\ Head(t) \in Whitespace THEN DropWs(Tail(t)) ELSE t

\* String.prototype.replace(/\s+/g, '_')
RECURSIVE ReplaceWs(_)
ReplaceWs(t) ==
    IF t = <<>> THEN <<>>
    ELSE IF Head(t) \in Whitespace THEN <<"_">> \o ReplaceWs(DropWs(Tail(t)))
    ELSE <<Head(t)>> \o ReplaceWs(Tail(t))

\* variant of ZipFileName: title.replace(/\s/g, '_'), one '_' for every
\* whitespace character
ZipFileNamePerChar(title) ==
    [k \in DOMAIN title |-> IF title[k] \in Whitespace THEN "_" ELSE title[k]]
        \o <<"_solution", ".", "zip">>

\* `${assignment.title.replace(/\s+/g, '_')}_solution.zip` (App.tsx 598)
ZipFileName(title) == ReplaceWs(title) \o <<"_solution", ".", "zip">>

\* inst of an operation that was started by a direct call of the API method
Direct == 0 - 1

Settled(fn, outcome, input, value) ==
    Some([fn |-> fn, outcome |-> outcome, input |-> input, value |-> value])

NotAuthenticatedMsg == "Not authenticated"
DriveUploadFailedMsg == "Google Drive upload failed"
GapiErrorMsg == "gapi error response"
NoFilesMsg == "No files have been generated to upload."

\* `Upload failed: ${e?.message || 'An unknown error occurred while
\* uploading. Please check the console.'}` (App.tsx 606-607); a rejected gapi
\* request carries no message
UploadFailedMsg(m) ==
    CASE m = NotAuthenticatedMsg -> "Upload failed: Not authenticated"
      [] m = DriveUploadFailedMsg -> "Upload failed: Google Drive upload failed"
      [] OTHER -> "Upload failed: An unknown error occurred while uploading. Please check the console."

\* variant of UploadLinks: links collected in the reverse of the input order
UploadLinksReversed(results) ==
    [k \in DOMAIN results |-> results[Len(results) + 1 - k][1]]

\* Promise.all(uploadPromises) fulfilled (part_002 168): the results in the
\* order of the input files
UploadLinks(results) == [k \in DOMAIN results |-> results[k][1]]

\* uploadFilesToDrive resolved: handleUploadToDrive continues (App.tsx 602-603)
UploadThen(op, links) ==
    IF op.inst = Direct
    THEN /\ promise' = Settled("uploadFilesToDrive", "resolved", op.files, links)
         /\ UNCHANGED viewVars
    ELSE /\ SetView(op, "DONE", NULL, generatedFiles, zipBlob, links, submissionStatus)
         /\ UNCHANGED promise

\* variant of UploadCatch: a catch block that also discards the generated
\* files and the zip
UploadCatchDiscardsFiles(op, m) ==
    IF op.inst = Direct
    THEN /\ promise' = Settled("uploadFilesToDrive", "rejected", op.files, m)
         /\ UNCHANGED viewVars
    ELSE /\ SetView(op, "ERROR", UploadFailedMsg(m), <<>>, Null, driveFileLinks,
                    submissionStatus)
         /\ UNCHANGED promise

\* uploadFilesToDrive rejected: handleUploadToDrive catch block (App.tsx 604-609)
UploadCatch(op, m) ==
    IF op.inst = Direct
    THEN /\ promise' = Settled("uploadFilesToDrive", "rejected", op.files, m)
         /\ UNCHANGED viewVars
    ELSE /\ SetView(op, "ERROR", UploadFailedMsg(m), generatedFiles, zipBlob, driveFileLinks,
                    submissionStatus)
         /\ UNCHANGED promise

\* uploadFilesToDrive(files) up to its first suspension: the token check and
\* the multipart POST of every file (part_002 131-145), preceded by
\* setError(null), setStatus(UPLOADING_TO_DRIVE) of the calling view inst
\* (App.tsx 594-595)
UploadFilesToDrive(inst, files) ==
    LET op == [kind |-> "upload", inst |-> inst, files |-> files,
               pcs |-> [k \in DOMAIN files |-> "post"],
               results |-> [k \in DOMAIN files |-> Null], settled |-> FALSE]
    IN IF files = <<>>
       THEN /\ UNCHANGED ops
            /\ UploadThen(op, <<>>)
       ELSE IF token = NULL
       THEN /\ UNCHANGED ops
            /\ UploadCatch(op, NotAuthenticatedMsg)
       ELSE /\ ops' = ops \cup {op}
            /\ UNCHANGED promise
            /\ IF inst = viewId
               THEN /\ status' = "UPLOADING_TO_DRIVE"
                    /\ error' = NULL
                    /\ UNCHANGED <<viewId, viewCount, generatedFiles, zipBlob, driveFileLinks,
                                   submissionStatus, attachmentContents>>
               ELSE UNCHANGED viewVars

\* variant of UploadClick: an upload button that is rendered whenever
\* status is DONE, whatever generatedFiles and driveFileLinks hold
UploadClickAlwaysShown ==
    /\ Screen = "AssignmentView"
    /\ version = "drive"
    /\ status = "DONE"
    /\ IF Len(generatedFiles) = 0 /\ zipBlob = Null
       THEN /\ error' = NoFilesMsg
            /\ UNCHANGED <<viewId, viewCount, status, generatedFiles, zipBlob, driveFileLinks,
                           submissionStatus, attachmentContents, ops, promise>>
       ELSE UploadFilesToDrive(viewId,
                IF zipBlob # Null
                THEN <<ZipFileName(selectedAssignment[1].title)>>
                ELSE [k \in DOMAIN generatedFiles |-> generatedFiles[k].name])
    /\ UNCHANGED <<configVars, appVars, initVars, authVars, dashVars>>

\* "Upload Files to Drive" button (App.tsx 689-697) -> handleUploadToDrive
\* (App.tsx 589-601)
UploadClick ==
    /\ Screen = "AssignmentView"
    /\ version = "drive"
    /\ status = "DONE" /\ Len(generatedFiles) > 0 /\ Len(driveFileLinks) = 0
    /\ IF Len(generatedFiles) = 0 /\ zipBlob = Null
       THEN /\ error' = NoFilesMsg
            /\ UNCHANGED <<viewId, viewCount, status, generatedFiles, zipBlob, driveFileLinks,
                           submissionStatus, attachmentContents, ops, promise>>
       ELSE UploadFilesToDrive(viewId,
                IF zipBlob # Null
                THEN <<ZipFileName(selectedAssignment[1].title)>>
                ELSE [k \in DOMAIN generatedFiles |-> generatedFiles[k].name])
    /\ UNCHANGED <<configVars, appVars, initVars, authVars, dashVars>>

\* an operation stays in ops while one of its requests is in flight
Running(op) == \E j \in DOMAIN op.pcs : op.pcs[j] \in {"post", "get"}

\* the promise of file k rejected with message m; Promise.all rejects on the
\* first rejection
UploadFileFailed(op, k, m) ==
    LET new == [op EXCEPT !.pcs[k] = "failed", !.settled = TRUE]
    IN /\ ops' = IF Running(new) THEN Replace(op, new) ELSE ops \ {op}
       /\ IF op.settled
          THEN UNCHANGED <<viewVars, promise>>
          ELSE UploadCatch(op, m)
       /\ UNCHANGED <<configVars, appVars, initVars, authVars, dashVars>>

\* the multipart POST of file k answered ok (part_002 152-159): the metadata
\* GET of the new file id is issued
UploadPostOk(op, k) ==
    /\ op \in ops /\ op.kind = "upload"
    /\ k \in DOMAIN op.pcs /\ op.pcs[k] = "post"
    /\ ops' = Replace(op, [op EXCEPT !.pcs[k] = "get"])
    /\ UNCHANGED <<configVars, promise, appVars, initVars, authVars, dashVars, viewVars>>

\* the multipart POST of file k answered not ok (part_002 147-150)
UploadPostFailed(op, k) ==
    /\ op \in ops /\ op.kind = "upload"
    /\ k \in DOMAIN op.pcs /\ op.pcs[k] = "post"
    /\ UploadFileFailed(op, k, DriveUploadFailedMsg)

\* the metadata GET of file k resolved (part_002 161-168)
UploadMetadataOk(op, k) ==
    /\ op \in ops /\ op.kind = "upload"
    /\ k \in DOMAIN op.pcs /\ op.pcs[k] = "get"
    /\ LET new == [op EXCEPT !.pcs[k] = "done",
                             !.results[k] = Some([name |-> op.files[k], id |-> k])]
       IN /\ ops' = IF Running(new) THEN Replace(op, new) ELSE ops \ {op}
          /\ IF \A j \in DOMAIN new.pcs : new.pcs[j] = "done"
             THEN UploadThen(op, UploadLinks(new.results))
             ELSE UNCHANGED <<viewVars, promise>>
    /\ UNCHANGED <<configVars, appVars, initVars, authVars, dashVars>>

\* the metadata GET of file k rejected
UploadMetadataFailed(op, k) ==
    /\ op \in ops /\ op.kind = "upload"
    /\ k \in DOMAIN op.pcs /\ op.pcs[k] = "get"
    /\ UploadFileFailed(op, k, GapiErrorMsg)

\* ------------------------------------------ submitAssignment (part_001)
NoSubmissionMsg == "Cannot submit: Student submission details are missing."

\* `Submission failed: ${e?.result?.error?.message || e?.message || 'An
\* unknown error occurred. Please check the console.'}` (App.tsx 264-265)
SubmissionFailedMsg(m) ==
    CASE m = NotAuthenticatedMsg -> "Submission failed: Not authenticated"
      [] m = DriveUploadFailedMsg -> "Submission failed: Google Drive upload failed"
      [] OTHER -> "Submission failed: gapi error response"

\* submitAssignment resolved: handleSubmit continues (App.tsx 260-261)
SubmitThen(op) ==
    IF op.inst = Direct
    THEN /\ promise' = Settled("submitAssignment", "resolved", op.files, "success")
         /\ UNCHANGED viewVars
    ELSE /\ SetView(op, "DONE", error, generatedFiles, zipBlob, driveFileLinks, "SUCCESS")
         /\ UNCHANGED promise

\* submitAssignment rejected: handleSubmit catch block (App.tsx 262-267)
SubmitCatch(op, m) ==
    IF op.inst = Direct
    THEN /\ promise' = Settled("submitAssignment", "rejected", op.files, m)
         /\ UNCHANGED viewVars
    ELSE /\ SetView(op, "ERROR", SubmissionFailedMsg(m), generatedFiles, zipBlob,
                    driveFileLinks, submissionStatus)
         /\ UNCHANGED promise

\* submitAssignment(files) up to its first suspension: uploadFileToDrive of
\* every file up to its POST (part_001 276-279, 302-320), preceded by
\* setError(null), setStatus(UPLOADING) of the calling view (App.tsx 256-257)
SubmitAssignment(inst, files) ==
    LET op == [kind |-> "submit", inst |-> inst, files |-> files, pc |-> "uploads",
               pcs |-> [k \in DOMAIN files |-> "post"]]
    IN IF files = <<>>
       THEN /\ ops' = ops \cup {[op EXCEPT !.pc = "modify"]}
            /\ UNCHANGED promise
            /\ SetView(op, "UPLOADING", NULL, generatedFiles, zipBlob, driveFileLinks,
                       submissionStatus)
       ELSE IF token = NULL
       THEN /\ UNCHANGED ops
            /\ SubmitCatch(op, NotAuthenticatedMsg)
       ELSE /\ ops' = ops \cup {op}
            /\ UNCHANGED promise
            /\ SetView(op, "UPLOADING", NULL, generatedFiles, zipBlob, driveFileLinks,
                       submissionStatus)

\* variant of SubmitClick: a handleSubmit without the check of the
\* submission id
SubmitClickUnchecked ==
    /\ Screen = "AssignmentView"
    /\ version = "submit"
    /\ status = "DONE" /\ Len(generatedFiles) > 0 /\ submissionStatus = "IDLE"
    /\ SubmitAssignment(viewId, [k \in DOMAIN generatedFiles |-> generatedFiles[k].name])
    /\ UNCHANGED <<configVars, appVars, initVars, authVars, dashVars>>

\* "Submit to Classroom" button (App.tsx 337-344) -> handleSubmit
\* (App.tsx 250-259)
SubmitClick ==
    /\ Screen = "AssignmentView"
    /\ version = "submit"
    /\ status = "DONE" /\ Len(generatedFiles) > 0 /\ submissionStatus = "IDLE"
    /\ IF selectedAssignment[1].studentSubmissionId = NULL
       THEN /\ error' = NoSubmissionMsg
            /\ status' = "ERROR"
            /\ UNCHANGED <<viewId, viewCount, generatedFiles, zipBlob, driveFileLinks,
                           submissionStatus, attachmentContents, ops, promise>>
       ELSE SubmitAssignment(viewId, [k \in DOMAIN generatedFiles |-> generatedFiles[k].name])
    /\ UNCHANGED <<configVars, appVars, initVars, authVars, dashVars>>

\* submitAssignment rejects with message m: Promise.all / the await throws
\* and no later statement of submitAssignment runs.  Uploads of other files
\* still in flight have no continuation left that changes state or issues a
\* request (uploadFileToDrive only returns result.id), so the operation ends
SubmitRejected(op, m) ==
    /\ ops' = ops \ {op}
    /\ SubmitCatch(op, m)
    /\ UNCHANGED <<configVars, appVars, initVars, authVars, dashVars>>

\* uploadFileToDrive of file k answered ok (part_001 327-328); after the last
\* one Promise.all resolves and modifyAttachments is called (part_001 281-290)
SubmitUploadOk(op, k) ==
    /\ op \in ops /\ op.kind = "submit" /\ op.pc = "uploads"
    /\ k \in DOMAIN op.pcs /\ op.pcs[k] = "post"
    /\ LET new == [op EXCEPT !.pcs[k] = "done"]
       IN ops' = IF \A j \in DOMAIN new.pcs : new.pcs[j] = "done"
                 THEN Replace(op, [new EXCEPT !.pc = "modify"])
                 ELSE Replace(op, new)
    /\ UNCHANGED <<configVars, promise, appVars, initVars, authVars, dashVars, viewVars>>

\* variant of SubmitUploadFailed: uploads awaited with Promise.allSettled: a
\* failed upload does not stop the sequence
SubmitUploadFailedIgnored(op, k) ==
    /\ op \in ops /\ op.kind = "submit" /\ op.pc = "uploads"
    /\ k \in DOMAIN op.pcs /\ op.pcs[k] = "post"
    /\ LET new == [op EXCEPT !.pcs[k] = "failed"]
       IN ops' = IF \A j \in DOMAIN new.pcs : new.pcs[j] # "post"
                 THEN Replace(op, [new EXCEPT !.pc = "modify"])
                 ELSE Replace(op, new)
    /\ UNCHANGED <<configVars, promise, appVars, initVars, authVars, dashVars, viewVars>>

\* uploadFileToDrive of file k answered not ok (part_001 322-325)
SubmitUploadFailed(op, k) ==
    /\ op \in ops /\ op.kind = "submit" /\ op.pc = "uploads"
    /\ k \in DOMAIN op.pcs /\ op.pcs[k] = "post"
    /\ SubmitRejected(op, DriveUploadFailedMsg)

\* modifyAttachments resolved: turnIn is called (part_001 292-297)
ModifyAttachmentsOk(op) ==
    /\ op \in ops /\ op.kind = "submit" /\ op.pc = "modify"
    /\ ops' = Replace(op, [op EXCEPT !.pc = "turnIn"])
    /\ UNCHANGED <<configVars, promise, appVars, initVars, authVars, dashVars, viewVars>>

\* modifyAttachments rejected
ModifyAttachmentsFailed(op) ==
    /\ op \in ops /\ op.kind = "submit" /\ op.pc = "modify"
    /\ SubmitRejected(op, GapiErrorMsg)

\* turnIn resolved: submitAssignment resolves
TurnInOk(op) ==
    /\ op \in ops /\ op.kind = "submit" /\ op.pc = "turnIn"
    /\ ops' = ops \ {op}
    /\ SubmitThen(op)
    /\ UNCHANGED <<configVars, appVars, initVars, authVars, dashVars>>

\* turnIn rejected
TurnInFailed(op) ==
    /\ op \in ops /\ op.kind = "submit" /\ op.pc = "turnIn"
    /\ SubmitRejected(op, GapiErrorMsg)

\* ------------------------------------------------------------------ Next
OpsAt(kind, pc) == {op \in ops : op.kind = kind /\ op.pc = pc}

InitStep ==
    \/ AppMount
    \/ GapiScriptLoaded
    \/ GsiScriptLoaded
    \/ PollTimer
    \/ GapiLoadCallback
    \/ GapiLoadError
    \/ ClientInitResolved
    \/ ClientInitRejected

AuthStep ==
    \/ SignInClick
    \/ \E granted \in BOOLEAN : TokenCallback(granted)
    \/ FetchUserProfileResolved
    \/ FetchUserProfileRejected
    \/ DisconnectClick
    \/ RevokeCallback

CoursesStep ==
    \/ \E op \in ops, list \in CourseLists : CoursesListResolved(op, list)
    \/ \E op \in ops : CoursesListRejected(op)
    \/ \E op \in ops, i \in 1..2, hasName \in BOOLEAN : TeacherResolved(op, i, hasName)
    \/ \E op \in ops, i \in 1..2 : TeacherRejected(op, i)

AssignmentsStep ==
    \/ \E i \in 1..2 : SelectCourse(i)
    \/ \E op \in OpsAt("getAssignments", "courseWork") :
          \E work \in CourseWorkLists(op.course) : CourseWorkResolved(op, work)
    \/ \E op \in OpsAt("getAssignments", "submissions") :
          \E subs \in SubmissionSets(op.work) : SubmissionsResolved(op, subs)
    \/ \E op \in ops : GetAssignmentsRejected(op)

NavigationStep ==
    \/ \E i \in 1..2 : OpenAssignment(i)
    \/ Back

AttachmentsStep ==
    \/ \E op \in ops, k \in 1..2, tooLarge \in BOOLEAN : AttachmentResolved(op, k, tooLarge)
    \/ \E op \in ops, k \in 1..2 : AttachmentRejected(op, k)

SolveStep ==
    \/ SolveClick
    \/ \E op \in ops, files \in AiFileLists : AiResolved(op, files)
    \/ \E op \in ops, requestFailed \in BOOLEAN : AiFailed(op, requestFailed)
    \/ \E op \in ops : FilesGenerated(op)
    \/ \E op \in ops : PdfFailed(op)
    \/ \E op \in ops : ZipGenerated(op)
    \/ \E op \in ops : ZipFailed(op)

UploadStep ==
    \/ \E op \in ops, k \in 1..MaxUploadFiles + 1 : UploadPostOk(op, k)
    \/ \E op \in ops, k \in 1..MaxUploadFiles + 1 : UploadPostFailed(op, k)
    \/ \E op \in ops, k \in 1..MaxUploadFiles + 1 : UploadMetadataOk(op, k)
    \/ \E op \in ops, k \in 1..MaxUploadFiles + 1 : UploadMetadataFailed(op, k)

SubmitStep ==
    \/ \E op \in ops, k \in 1..MaxUploadFiles + 1 : SubmitUploadOk(op, k)
    \/ \E op \in ops, k \in 1..MaxUploadFiles + 1 : SubmitUploadFailed(op, k)
    \/ \E op \in ops : ModifyAttachmentsOk(op)
    \/ \E op \in ops : ModifyAttachmentsFailed(op)
    \/ \E op \in ops : TurnInOk(op)
    \/ \E op \in ops : TurnInFailed(op)

\* the whole application
Next ==
    \/ InitStep
    \/ AuthStep
    \/ CoursesStep
    \/ AssignmentsStep
    \/ NavigationStep
    \/ AttachmentsStep
    \/ SolveStep
    \/ UploadClick
    \/ UploadStep
    \/ SubmitClick
    \/ SubmitStep

Spec == Init /\ [][Next]_vars

\* ------------------------------------------------- Dashboard on its own
\* the state right after the first login: initClient resolved, one sign-in,
\* token granted, profile fetched, Dashboard mounted and getCourses issued
InitDash ==
    /\ GOOGLE_CLIENT_ID = "client-id" /\ API_KEY = "api-key"
    /\ GEMINI_API_KEY = "YOUR_GEMINI_API_KEY" /\ version = "drive"
    /\ lim = [signIns |-> 1, revokes |-> 0, selects |-> MaxSelectsDash, views |-> 1,
              starts |-> MaxSelectsDash + 2]
    /\ isInitialized = TRUE /\ user = "profile" /\ initError = NULL
    /\ tokenClient = "tokenClient" /\ token = "token"
    /\ initPc = "resolved" /\ elapsed = 0
    /\ gapiPresent = TRUE /\ googlePresent = TRUE
    /\ tokenRequests = 0 /\ profileFetches = 0 /\ revokes = 0 /\ signIns = 1
    /\ dashId = 1 /\ dashCount = 1 /\ courses = <<>> /\ assignments = <<>>
    /\ selectedCourse = NULL /\ selectedAssignment = Null
    /\ isCoursesLoading = TRUE /\ isAssignmentsLoading = FALSE
    /\ dashError = NULL /\ selects = 0
    /\ viewId = 0 /\ viewCount = 0 /\ status = "IDLE" /\ error = NULL
    /\ generatedFiles = <<>> /\ zipBlob = Null /\ driveFileLinks = <<>>
    /\ submissionStatus = "IDLE" /\ attachmentContents = {}
    /\ ops = {[kind |-> "getCourses", inst |-> 1, pc |-> "list"]}
    /\ promise = <<>>

NextDash ==
    \/ CoursesStep
    \/ AssignmentsStep
    \/ NavigationStep
    \/ AttachmentsStep

SpecDash == InitDash /\ [][NextDash]_vars

\* ---------------------------------------------- AssignmentView on its own
\* a Dashboard that shows the assignments of a selected course, no request
\* in flight; the token is null when a profile fetch of an earlier sign-in
\* logged the user in again after a Disconnect
InitView ==
    /\ GOOGLE_CLIENT_ID = "client-id" /\ API_KEY = "api-key"
    /\ GEMINI_API_KEY \in {"YOUR_GEMINI_API_KEY", "gemini-key"}
    /\ version \in {"submit", "drive"}
    /\ (version = "drive" => GEMINI_API_KEY = "YOUR_GEMINI_API_KEY")
    /\ lim = [signIns |-> 1, revokes |-> 0, selects |-> 1, views |-> MaxViewsView,
              starts |-> MaxViewsView + 2]
    /\ isInitialized = TRUE /\ user = "profile" /\ initError = NULL
    /\ tokenClient = "tokenClient" /\ token \in {"token", NULL}
    /\ initPc = "resolved" /\ elapsed = 0
    /\ gapiPresent = TRUE /\ googlePresent = TRUE
    /\ tokenRequests = 0 /\ profileFetches = 0 /\ revokes = 0 /\ signIns = 1
    /\ dashId = 1 /\ dashCount = 1
    /\ courses = CoursesWithTeachers(<<"c1", "c2">>, <<"teacher-name", "N/A">>)
    /\ \E c \in CourseIds : \E work \in CourseWorkLists(c) :
          /\ selectedCourse = c
          /\ work # <<>>
          /\ \E subs \in SubmissionSets(work) : assignments = AssignmentsOf(c, work, subs)
    /\ selectedAssignment = Null
    /\ isCoursesLoading = FALSE /\ isAssignmentsLoading = FALSE
    /\ dashError = NULL /\ selects = 1
    /\ viewId = 0 /\ viewCount = 0 /\ status = "IDLE" /\ error = NULL
    /\ generatedFiles = <<>> /\ zipBlob = Null /\ driveFileLinks = <<>>
    /\ submissionStatus = "IDLE" /\ attachmentContents = {}
    /\ ops = {}
    /\ promise = <<>>

NextView ==
    \/ NavigationStep
    \/ AttachmentsStep
    \/ SolveStep
    \/ UploadClick
    \/ UploadStep
    \/ SubmitClick
    \/ SubmitStep

SpecView == InitView /\ [][NextView]_vars

\* ------------------------------------------- the API methods on their own
\* lists of file names handed to uploadFilesToDrive / submitAssignment
RECURSIVE SeqsUpTo(_, _)
SeqsUpTo(S, n) ==
    IF n = 0 THEN {<<>>}
    ELSE LET shorter == SeqsUpTo(S, n - 1)
         IN shorter \cup {Append(q, x) : q \in shorter, x \in S}

FileNames == {<<"a", ".", "txt">>, <<"b", ".", "pdf">>}

InitApi ==
    /\ GOOGLE_CLIENT_ID = "client-id" /\ API_KEY = "api-key"
    /\ GEMINI_API_KEY = "YOUR_GEMINI_API_KEY"
    /\ version \in {"submit", "drive"}
    /\ lim = [signIns |-> 0, revokes |-> 0, selects |-> 0, views |-> 0, starts |-> 0]
    /\ isInitialized = TRUE /\ user = NULL /\ initError = NULL
    /\ tokenClient = "tokenClient" /\ token \in {NULL, "token"}
    /\ initPc = "resolved" /\ elapsed = 0
    /\ gapiPresent = TRUE /\ googlePresent = TRUE
    /\ tokenRequests = 0 /\ profileFetches = 0 /\ revokes = 0 /\ signIns = 0
    /\ dashId = 0 /\ dashCount = 0 /\ courses = <<>> /\ assignments = <<>>
    /\ selectedCourse = NULL /\ selectedAssignment = Null
    /\ isCoursesLoading = FALSE /\ isAssignmentsLoading = FALSE
    /\ dashError = NULL /\ selects = 0
    /\ viewId = 0 /\ viewCount = 0 /\ status = "IDLE" /\ error = NULL
    /\ generatedFiles = <<>> /\ zipBlob = Null /\ driveFileLinks = <<>>
    /\ submissionStatus = "IDLE" /\ attachmentContents = {}
    /\ ops = {}
    /\ promise = <<>>

\* classroomApi.uploadFilesToDrive(files) called directly
CallUploadFilesToDrive(files) ==
    /\ version = "drive"
    /\ ops = {} /\ promise = <<>>
    /\ UploadFilesToDrive(Direct, files)
    /\ UNCHANGED <<configVars, appVars, initVars, authVars, dashVars>>

\* classroomApi.submitAssignment(courseId, courseWorkId, submissionId, files)
\* called directly
CallSubmitAssignment(files) ==
    /\ version = "submit"
    /\ ops = {} /\ promise = <<>>
    /\ SubmitAssignment(Direct, files)
    /\ UNCHANGED <<configVars, appVars, initVars, authVars, dashVars>>

NextApi ==
    \/ \E files \in SeqsUpTo(FileNames, MaxUploadFiles) : CallUploadFilesToDrive(files)
    \/ \E files \in SeqsUpTo(FileNames, MaxUploadFiles) : CallSubmitAssignment(files)
    \/ UploadStep
    \/ SubmitStep

SpecApi == InitApi /\ [][NextApi]_vars

\* ------------------------------------------------ AuthService on its own
\* the state after initClient resolved: the LandingPage, nobody signed in
InitAuth ==
    /\ GOOGLE_CLIENT_ID = "client-id" /\ API_KEY = "api-key"
    /\ GEMINI_API_KEY = "YOUR_GEMINI_API_KEY" /\ version = "drive"
    /\ lim = [signIns |-> MaxSignInsAuth, revokes |-> MaxRevokes, selects |-> 0, views |-> 0,
              starts |-> MaxSignInsAuth]
    /\ isInitialized = TRUE /\ user = NULL /\ initError = NULL
    /\ tokenClient = "tokenClient" /\ token = NULL
    /\ initPc = "resolved" /\ elapsed = 0
    /\ gapiPresent = TRUE /\ googlePresent = TRUE
    /\ tokenRequests = 0 /\ profileFetches = 0 /\ revokes = 0 /\ signIns = 0
    /\ dashId = 0 /\ dashCount = 0 /\ courses = <<>> /\ assignments = <<>>
    /\ selectedCourse = NULL /\ selectedAssignment = Null
    /\ isCoursesLoading = FALSE /\ isAssignmentsLoading = FALSE
    /\ dashError = NULL /\ selects = 0
    /\ viewId = 0 /\ viewCount = 0 /\ status = "IDLE" /\ error = NULL
    /\ generatedFiles = <<>> /\ zipBlob = Null /\ driveFileLinks = <<>>
    /\ submissionStatus = "IDLE" /\ attachmentContents = {}
    /\ ops = {}
    /\ promise = <<>>

NextAuth == AuthStep

SpecAuth == InitAuth /\ [][NextAuth]_vars

\* the revoke callback of the identity library eventually fires
FairSpecAuth == SpecAuth /\ WF_vars(RevokeCallback)

\* --------------------------------------------------- App init on its own
NextInit == InitStep

SpecInit == Init /\ [][NextInit]_vars

\* the mount effect runs, the poll timer fires, and gapi.load and
\* gapi.client.init each call back with one of their two outcomes; the
\* script tags need never finish loading
FairSpecInit ==
    /\ SpecInit
    /\ WF_vars(AppMount)
    /\ WF_vars(PollTimer)
    /\ WF_vars(GapiLoadCallback \/ GapiLoadError)
    /\ WF_vars(ClientInitResolved \/ ClientInitRejected)

\* ================================================================ properties
\* requests in flight, by external call
OpsOf(kind) == {op \in ops : op.kind = kind}

PcCount(kind, pc) ==
    Cardinality({p \in OpsOf(kind) \X (1..MaxUploadFiles + 1) :
                    p[2] \in DOMAIN p[1].pcs /\ p[1].pcs[p[2]] = pc})

InFlight(call) ==
    CASE call = "requestAccessToken" -> tokenRequests
      [] call = "userinfo" -> profileFetches
      [] call = "revoke" -> revokes
      [] call = "courses.list" -> Cardinality(OpsAt("getCourses", "list"))
      [] call = "users.get" ->
            Cardinality({p \in OpsAt("getCourses", "teachers") \X (1..2) :
                            p[2] \in DOMAIN p[1].teacher /\ p[1].teacher[p[2]] = "pending"})
      [] call = "courseWork.list" -> Cardinality(OpsAt("getAssignments", "courseWork"))
      [] call = "studentSubmissions.list" -> Cardinality(OpsAt("getAssignments", "submissions"))
      [] call = "attachment" ->
            Cardinality({p \in OpsOf("attachments") \X (1..2) : p[2] \in p[1].pending})
      [] call = "generateContent" -> Cardinality(OpsAt("solve", "ai"))
      [] call = "drive.upload" -> PcCount("upload", "post") + PcCount("submit", "post")
      [] call = "drive.files.get" -> PcCount("upload", "get")
      [] call = "modifyAttachments" -> Cardinality(OpsAt("submit", "modify"))
      [] call = "turnIn" -> Cardinality(OpsAt("submit", "turnIn"))

\* the external calls of one workflow
Workflows ==
    { {"requestAccessToken", "userinfo"},
      {"revoke"},
      {"courses.list", "users.get"},
      {"courseWork.list", "studentSubmissions.list"},
      {"attachment"},
      {"generateContent"},
      {"drive.upload", "drive.files.get", "modifyAttachments", "turnIn"} }

WorkflowOf(call) == CHOOSE w \in Workflows : call \in w

\* the step is the failure of an external call of the given kind
FailureOf(call) ==
    CASE call = "userinfo" -> FetchUserProfileRejected
      [] call = "courses.list" -> \E op \in ops : CoursesListRejected(op)
      [] call = "users.get" -> \E op \in ops, i \in 1..2 : TeacherRejected(op, i)
      [] call = "courseWork.list" ->
            \E op \in OpsAt("getAssignments", "courseWork") : GetAssignmentsRejected(op)
      [] call = "studentSubmissions.list" ->
            \E op \in OpsAt("getAssignments", "submissions") : GetAssignmentsRejected(op)
      [] call = "attachment" -> \E op \in ops, k \in 1..2 : AttachmentRejected(op, k)
      [] call = "generateContent" -> \E op \in ops : AiFailed(op, TRUE)
      [] call = "drive.upload" ->
            \E op \in ops, k \in 1..MaxUploadFiles + 1 :
                UploadPostFailed(op, k) \/ SubmitUploadFailed(op, k)
      [] call = "drive.files.get" ->
            \E op \in ops, k \in 1..MaxUploadFiles + 1 : UploadMetadataFailed(op, k)
      [] call = "modifyAttachments" -> \E op \in ops : ModifyAttachmentsFailed(op)
      [] call = "turnIn" -> \E op \in ops : TurnInFailed(op)

FallibleCalls ==
    {"userinfo", "courses.list", "users.get", "courseWork.list", "studentSubmissions.list",
     "attachment", "generateContent", "drive.upload", "drive.files.get", "modifyAttachments",
     "turnIn"}

\* ---------------------------------------------------------------- C1
\* the step is a failure of the solve of the mounted view: the AI request
\* failed, its text did not parse, PDF generation or zipping failed
SolveFailure ==
    \E op \in OpsOf("solve") :
        /\ op.inst = viewId
        /\ \/ \E requestFailed \in BOOLEAN : AiFailed(op, requestFailed)
           \/ PdfFailed(op)
           \/ ZipFailed(op)

\* C1: when the AI request fails, its text is not valid JSON, or PDF or zip
\* generation fails, handleSolve halts: the step sets status ERROR with a
\* non-null error message and leaves no solve of that view running; from
\* ERROR the view reaches DONE only through a new solve (status SOLVING).
C1_SolveFailureHalts ==
    [][ /\ SolveFailure =>
            /\ status' = "ERROR"
            /\ error' # NULL
            /\ \A op \in ops' : ~(op.kind = "solve" /\ op.inst = viewId)
        /\ (status = "ERROR" /\ viewId # 0 /\ viewId' = viewId) =>
            status' \in {"ERROR", "SOLVING"} ]_vars

\* a mounted view whose solve failed after the files were generated (zipping
\* failed): ERROR with the solve message, the files kept, no zip
C1_Witness ==
    /\ viewId # 0
    /\ status = "ERROR"
    /\ error = SolveErrorMsg
    /\ Len(generatedFiles) > 1
    /\ zipBlob = Null

\* ---------------------------------------------------------------- C2
AnyMessage == initError # NULL \/ dashError # NULL \/ error # NULL

\* C2 as stated: every failure of an external call (user-profile fetch,
\* course list, teacher lookup, assignment list, attachment fetch, AI
\* request, Drive upload, Classroom submit) results in a user-facing error
\* message being set.
C2_EveryFailureShowsMessage ==
    [][ \A call \in FallibleCalls : FailureOf(call) => AnyMessage' ]_vars

\* the component that issued the operation is still mounted
DashMounted(op) == op.inst = dashId
ViewMounted(op) == op.inst = viewId

\* C2 amended: a failed course list, assignment list, AI request, Drive
\* upload or Classroom submit sets the error message of the component that
\* issued it, if that component is still mounted; a failed attachment fetch
\* is recorded as that attachment's content "[Error reading attachment
\* content.]"; a failed user-profile fetch only signs out and a failed
\* teacher lookup only leaves teacher "N/A": neither sets a message.
C2_FailuresAreHandled ==
    [][ /\ \A op \in ops :
            /\ (CoursesListRejected(op) /\ DashMounted(op)) => dashError' = CoursesErrorMsg
            /\ (op.kind = "getAssignments" /\ GetAssignmentsRejected(op) /\ DashMounted(op)) =>
                    dashError' = AssignmentsErrorMsg(op.course)
            /\ (AiFailed(op, TRUE) /\ ViewMounted(op)) =>
                    (error' = SolveErrorMsg /\ status' = "ERROR")
            /\ (ViewMounted(op) /\ \E k \in 1..MaxUploadFiles + 1 :
                    UploadPostFailed(op, k) \/ UploadMetadataFailed(op, k)) =>
                    (status' = "ERROR" /\
                     error' \in {UploadFailedMsg(DriveUploadFailedMsg), UploadFailedMsg(GapiErrorMsg)})
            /\ (ViewMounted(op) /\
                    \/ \E k \in 1..MaxUploadFiles + 1 : SubmitUploadFailed(op, k)
                    \/ ModifyAttachmentsFailed(op)
                    \/ TurnInFailed(op)) =>
                    (status' = "ERROR" /\
                     error' \in {SubmissionFailedMsg(DriveUploadFailedMsg),
                                 SubmissionFailedMsg(GapiErrorMsg)})
            /\ \A k \in 1..2 : (AttachmentRejected(op, k) /\ ViewMounted(op)) =>
                    LET entry == <<op.atts[k].title, ErrorContent>>
                    IN IF op.pending = {k}
                       THEN entry \in attachmentContents'
                       ELSE \E new \in ops' : /\ new.kind = "attachments"
                                              /\ new.inst = op.inst
                                              /\ entry \in new.contents
            /\ \A i \in 1..2 : TeacherRejected(op, i) =>
                    (dashError' = dashError /\ error' = error /\ initError' = initError)
        /\ FetchUserProfileRejected =>
            /\ dashError' = dashError /\ error' = error /\ initError' = initError
            /\ revokes' = IF token # NULL THEN revokes + 1 ELSE revokes ]_vars

\* the Dashboard shows the banner of a failed course list
C2_Witness ==
    /\ Screen = "Dashboard"
    /\ dashError = CoursesErrorMsg
    /\ ~isCoursesLoading

\* ---------------------------------------------------------------- C3
\* C3: no retry.  The step in which an external call fails sends no request
\* of that call's workflow: fewer calls of the failed kind are in flight
\* after the step than before it, and of no other call of the workflow are
\* there more; a further request of the workflow needs another step.
C3_NoRetry ==
    [][ \A call \in FallibleCalls :
            FailureOf(call) =>
                /\ InFlight(call)' < InFlight(call)
                /\ \A other \in WorkflowOf(call) \ {call} : InFlight(other)' <= InFlight(other) ]_vars

\* the solve of the mounted view failed and nothing is in flight any more
C3_Witness ==
    /\ viewId # 0
    /\ status = "ERROR"
    /\ error = SolveErrorMsg
    /\ ops = {}
    /\ tokenRequests + profileFetches + revokes = 0

\* ---------------------------------------------------------------- C4
\* the screen changes the render functions allow in one step
ScreenOrder ==
    { <<"Spinner", "LandingPage">>, <<"Spinner", "InitFailed">>,
      <<"LandingPage", "Dashboard">>,
      <<"Dashboard", "AssignmentView">>, <<"Dashboard", "LandingPage">>,
      <<"AssignmentView", "Dashboard">>, <<"AssignmentView", "LandingPage">> }

\* C4: the screens are reached only in order.  AssignmentView is shown only
\* when a profile is set and a course and an assignment are selected (and an
\* AssignmentView is mounted inside a mounted Dashboard); the Dashboard only
\* when initClient has resolved and a profile is set; the LandingPage only
\* when initClient has resolved and no profile is set; and the screen only
\* changes along Spinner -> LandingPage -> Dashboard -> AssignmentView, back
\* by one, or to the LandingPage on sign-out.
C4_ScreensInOrder ==
    [][ /\ Screen' = "AssignmentView" =>
            /\ user' # NULL /\ selectedCourse' # NULL /\ selectedAssignment' # Null
            /\ initPc' = "resolved" /\ initError' = NULL
            /\ viewId' # 0 /\ dashId' # 0
        /\ Screen' = "Dashboard" =>
            /\ isInitialized' /\ initPc' = "resolved" /\ initError' = NULL
            /\ user' # NULL
            /\ viewId' = 0 /\ dashId' # 0
        /\ Screen' = "LandingPage" =>
            /\ isInitialized' /\ initPc' = "resolved" /\ initError' = NULL
            /\ user' = NULL
            /\ viewId' = 0 /\ dashId' = 0
        /\ Screen' # Screen => <<Screen, Screen'>> \in ScreenOrder ]_vars

\* an assignment is open: the last screen of the order
C4_Witness ==
    /\ Screen = "AssignmentView"
    /\ viewId # 0
    /\ selectedAssignment # Null

\* ---------------------------------------------------------------- C5
PlaceholderCredentials == StartsWithYOUR(GOOGLE_CLIENT_ID) \/ StartsWithYOUR(API_KEY)

\* C5: with GOOGLE_CLIENT_ID or API_KEY starting with "YOUR_", initClient
\* rejects before waiting for the scripts, loading gapi, initialising the
\* client or creating the token client: the App shows the init-failed
\* screen with the configuration message, tokenClient stays null and no
\* access token is ever requested or held.
C5_PlaceholderCredentialsReject ==
    PlaceholderCredentials =>
        /\ initPc \in {"unmounted", "rejected"}
        /\ tokenClient = NULL
        /\ tokenRequests = 0 /\ token = NULL /\ user = NULL
        /\ Screen \in {"Spinner", "InitFailed"}
        /\ initPc = "rejected" => (Screen = "InitFailed" /\ initError = ConfigErrorMsg)

\* the init-failed screen with only the API key left as a placeholder
C5_Witness ==
    /\ ~StartsWithYOUR(GOOGLE_CLIENT_ID)
    /\ StartsWithYOUR(API_KEY)
    /\ Screen = "InitFailed"
    /\ initError = ConfigErrorMsg
    /\ tokenClient = NULL

\* ---------------------------------------------------------------- C6
SubmitFailure(op) ==
    \/ \E k \in 1..MaxUploadFiles + 1 : SubmitUploadFailed(op, k)
    \/ ModifyAttachmentsFailed(op)
    \/ TurnInFailed(op)

\* C6: submitAssignment calls modifyAttachments only after the Drive upload
\* of every file has succeeded and turnIn only after modifyAttachments has
\* succeeded; when a step fails the call ends there (no request of it stays
\* or is sent) and its promise rejects; it resolves only when turnIn has
\* succeeded.
C6_SubmitInSequence ==
    [][ /\ \A new \in ops' :
            (new.kind = "submit" /\ new.pc \in {"modify", "turnIn"}) =>
                \A k \in DOMAIN new.pcs : new.pcs[k] = "done"
        /\ \A new \in ops' \ ops :
            (new.kind = "submit" /\ new.pc = "modify") =>
                \/ new.files = <<>>
                \/ \E op \in ops, k \in 1..MaxUploadFiles + 1 : SubmitUploadOk(op, k)
        /\ \A new \in ops' \ ops :
            (new.kind = "submit" /\ new.pc = "turnIn") =>
                \E op \in ops : ModifyAttachmentsOk(op)
        /\ \A op \in ops :
            (op.kind = "submit" /\ SubmitFailure(op)) =>
                /\ \A new \in ops' : ~(new.kind = "submit" /\ new.inst = op.inst)
                /\ op.inst = Direct =>
                    /\ promise' # <<>>
                    /\ promise'[1].fn = "submitAssignment"
                    /\ promise'[1].outcome = "rejected"
        /\ (promise' # promise /\ promise'[1].fn = "submitAssignment"
                /\ promise'[1].outcome = "resolved") =>
                \E op \in ops : TurnInOk(op) ]_vars

\* submitAssignment of two files resolved
C6_Witness ==
    /\ promise # <<>>
    /\ promise[1].fn = "submitAssignment"
    /\ promise[1].outcome = "resolved"
    /\ Len(promise[1].input) = 2

\* ---------------------------------------------------------------- C7
\* what uploadFilesToDrive does once a token is held or a file is given
UploadPerFile ==
    /\ \A new \in ops' :
        new.kind = "upload" =>
            \A k \in DOMAIN new.pcs :
                new.pcs[k] = "get" =>
                    \E op \in ops :
                        /\ op.kind = "upload" /\ op.inst = new.inst
                        /\ \/ op.pcs[k] = "get"
                           \/ UploadPostOk(op, k)
    /\ (promise' # <<>> /\ promise'[1].fn = "uploadFilesToDrive"
            /\ promise'[1].outcome = "resolved") =>
            LET files == promise'[1].input
                links == promise'[1].value
            IN /\ Len(links) = Len(files)
               /\ \A k \in DOMAIN files : links[k].name = files[k] /\ links[k].id = k
               /\ promise' # promise =>
                    \/ files = <<>>
                    \/ \E op \in ops, k \in 1..MaxUploadFiles + 1 :
                          /\ UploadMetadataOk(op, k)
                          /\ \A j \in DOMAIN op.pcs \ {k} : op.pcs[j] = "done"
    /\ \A op \in ops :
        (/\ op.kind = "upload" /\ op.inst = Direct /\ ~op.settled
         /\ \E k \in 1..MaxUploadFiles + 1 :
                UploadPostFailed(op, k) \/ UploadMetadataFailed(op, k)) =>
            (promise' # <<>> /\ promise'[1].outcome = "rejected")
    /\ promise # <<>> => promise' = promise

\* C7 as stated: per file the POST and, only after that POST answered ok,
\* the metadata GET; resolves with one link per input file in input order
\* when every file succeeded; rejects when an upload or metadata request
\* fails or no access token is held.
C7_UploadRejectsWithoutToken ==
    [][ /\ UploadPerFile
        /\ \A files \in SeqsUpTo(FileNames, MaxUploadFiles) :
            (CallUploadFilesToDrive(files) /\ token = NULL) =>
                (promise' # <<>> /\ promise'[1].outcome = "rejected") ]_vars

\* C7 amended: as stated, but without a token the call rejects only when the
\* file list is not empty (the token is read once per file); for an empty
\* list it resolves with an empty list whether or not a token is held.
C7_UploadPerFile ==
    [][ /\ UploadPerFile
        /\ \A files \in SeqsUpTo(FileNames, MaxUploadFiles) :
            CallUploadFilesToDrive(files) =>
                /\ (token = NULL /\ files # <<>>) =>
                        promise' = Settled("uploadFilesToDrive", "rejected", files,
                                           NotAuthenticatedMsg)
                /\ files = <<>> =>
                        promise' = Settled("uploadFilesToDrive", "resolved", files, <<>>) ]_vars

\* two different files uploaded: the links resolved in the order of the input
C7_Witness ==
    /\ promise # <<>>
    /\ promise[1].fn = "uploadFilesToDrive"
    /\ promise[1].outcome = "resolved"
    /\ Len(promise[1].input) = 2
    /\ promise[1].input[1] # promise[1].input[2]

\* ---------------------------------------------------------------- C8
\* C8: in the Drive-upload AssignmentView status is FETCHING_ATTACHMENTS
\* exactly while the attachment contents of the view are being fetched, and
\* once it has left that status attachmentContents holds one entry per
\* attachment of the assignment.
C8_OneEntryPerAttachment ==
    (Screen = "AssignmentView" /\ version = "drive") =>
        /\ status = "FETCHING_ATTACHMENTS" <=>
                \E op \in ops : op.kind = "attachments" /\ op.inst = viewId
        /\ status # "FETCHING_ATTACHMENTS" =>
                Cardinality(attachmentContents) = Len(selectedAssignment[1].attachments)

\* ---------------------------------------------------------------- C9
\* C9: once no request of the Dashboard is in flight, every assignment it
\* displays belongs to the selected course.
C9_AssignmentsOfSelectedCourse ==
    (dashId # 0 /\ \A op \in ops : op.inst # dashId \/ op.kind # "getAssignments") =>
        \A k \in DOMAIN assignments : assignments[k].courseId = selectedCourse

\* ---------------------------------------------------------------- C10
\* the view state React keeps per AssignmentView instance
viewState ==
    <<status, error, generatedFiles, zipBlob, driveFileLinks, submissionStatus,
      attachmentContents>>

\* C10: every time an assignment is opened the AssignmentView starts from
\* its initial state (status IDLE, or FETCHING_ATTACHMENTS while its
\* attachments are fetched, no files, no zip, no links, no error), and from
\* then on its state changes only by a click in it or by a request it issued
\* itself: a solve, upload or submit left in flight by an earlier view
\* changes nothing.
C10_ViewStartsFresh ==
    [][ /\ (viewId' # viewId /\ viewId' # 0) =>
            /\ status' \in {"IDLE", "FETCHING_ATTACHMENTS"}
            /\ status' = "FETCHING_ATTACHMENTS" =>
                    \E op \in ops' : op.kind = "attachments" /\ op.inst = viewId'
            /\ error' = NULL
            /\ generatedFiles' = <<>> /\ zipBlob' = Null /\ driveFileLinks' = <<>>
            /\ submissionStatus' = "IDLE" /\ attachmentContents' = {}
        /\ (viewId' = viewId /\ viewState' # viewState) =>
            \/ SolveClick
            \/ UploadClick
            \/ SubmitClick
            \/ \E op \in ops \ ops' : op.inst = viewId ]_vars

\* a second view is open and idle while the solve started in the first view
\* is still in flight
C10_Witness ==
    /\ viewId = 2
    /\ status = "IDLE"
    /\ \E op \in ops : op.kind = "solve" /\ op.inst = 1

\* ---------------------------------------------------------------- C11
\* C11: when a solve has ended in DONE, a zip archive is available (zipBlob
\* non-null) if and only if more than one file was generated, and the
\* archive holds one entry per generated file.
C11_ZipOfEveryFile ==
    (viewId # 0 /\ status = "DONE") =>
        /\ zipBlob # Null <=> Len(generatedFiles) > 1
        /\ zipBlob # Null => Cardinality(zipBlob[1].entries) = Len(generatedFiles)

\* ---------------------------------------------------------------- C12
\* C12: signOut signs the user out.  Wherever the Disconnect button is shown
\* a click on it acts (it starts the revoke of the token); the revoke
\* callback clears the token and calls onLogout in that order, so that the
\* profile is null only with the token cleared; and once a revoke has been
\* requested the app eventually shows the LandingPage, the revoke callback
\* being assumed to fire.
C12_DisconnectSignsOut ==
    /\ []((Screen = "Dashboard" /\ revokes < lim.revokes) => ENABLED <<DisconnectClick>>_vars)
    /\ [][RevokeCallback => (token' = NULL /\ user' = NULL)]_vars
    /\ (revokes > 0) ~> (user = NULL /\ Screen = "LandingPage")

\* ---------------------------------------------------------------- C13
ScriptsPresent == gapiPresent /\ googlePresent

\* C13: initClient waits for both scripts.  gapi.load is called only with
\* both scripts present, gapi.client.init only from the load callback, and
\* the token client exists only after gapi.client.init resolved; a check
\* made after the load deadline rejects with "Google API scripts failed to
\* load in time.", after which neither is ever called.
C13_InitWaitsForScripts ==
    [][ /\ initPc' \in {"gapiLoad", "clientInit", "resolved"} => ScriptsPresent'
        /\ (initPc' = "clientInit" /\ initPc # "clientInit") => GapiLoadCallback
        /\ tokenClient' # NULL => initPc' = "resolved"
        /\ (initPc' = "resolved" /\ initPc # "resolved") => ClientInitResolved
        /\ (PollTimer /\ elapsed + PollIntervalMs > LoadDeadlineMs) =>
                /\ initPc' = "rejected"
                /\ initError' = ScriptsTimeoutMsg
                /\ tokenClient' = NULL
        /\ initPc = "rejected" => (initPc' = "rejected" /\ tokenClient' = NULL) ]_vars

\* the deadline passed with the identity script still missing
C13_Witness ==
    /\ initPc = "rejected"
    /\ initError = ScriptsTimeoutMsg
    /\ gapiPresent /\ ~googlePresent
    /\ tokenClient = NULL

\* ---------------------------------------------------------------- C16
\* C16: initialization always finishes.  After App mounts isInitialized
\* eventually becomes true, whatever way initClient ends (placeholder
\* credentials, scripts not loaded in time, gapi load error, client init
\* error, or success), and it is set in the step in which initClient ends.
C16_InitAlwaysFinishes ==
    /\ <>isInitialized
    /\ [][(initPc' \in {"resolved", "rejected"}) <=> isInitialized']_vars

\* initialization finished although gapi.load reported an error
C16_Witness ==
    /\ isInitialized
    /\ initPc = "rejected"
    /\ initError = GapiLoadErrorMsg

\* ---------------------------------------------------------------- C14
\* C14: when the assignment has no studentSubmissionId, handleSubmit sets
\* status ERROR with the message "Cannot submit: Student submission details
\* are missing." and starts no Drive upload and no Classroom call; no submit
\* of the view is ever in flight for such an assignment.
C14_SubmitNeedsSubmissionId ==
    [][ /\ (SubmitClick /\ selectedAssignment[1].studentSubmissionId = NULL) =>
                /\ status' = "ERROR"
                /\ error' = NoSubmissionMsg
                /\ ops' = ops
        /\ \A op \in ops' :
                (op.kind = "submit" /\ op.inst = viewId' /\ viewId' # 0) =>
                    selectedAssignment'[1].studentSubmissionId # NULL ]_vars

\* the Classroom-submit view after a click on Submit for an assignment
\* without a submission: the files are still there, nothing is in flight
C14_Witness ==
    /\ version = "submit" /\ viewId # 0
    /\ status = "ERROR"
    /\ error = NoSubmissionMsg
    /\ Len(generatedFiles) > 0
    /\ ops = {}

\* ---------------------------------------------------------------- C15
\* C15: whenever status is DONE, generatedFiles holds at least one file.
C15_DoneHasFiles ==
    (viewId # 0 /\ status = "DONE") => Len(generatedFiles) > 0

\* ---------------------------------------------------------------- C17
\* what holds of the token callback and of fetchUserProfile in every
\* interleaving: a token response without an access_token starts no profile
\* fetch and no login, a profile fetch starts only from a token response with
\* a token, the profile is set only by a resolved fetch, and a failed fetch
\* leaves profile, screen and token as they are
ProfileFetchHandling ==
    /\ TokenCallback(FALSE) =>
            (profileFetches' = profileFetches /\ user' = user /\ token' = token)
    /\ profileFetches' > profileFetches => TokenCallback(TRUE)
    /\ (user' # user /\ user' # NULL) => FetchUserProfileResolved
    /\ FetchUserProfileRejected =>
            (user' = user /\ Screen' = Screen /\ token' = token)
    /\ RevokeCallback => (token' = NULL /\ user' = NULL)

C18_UserHoldsToken ==
    user # NULL => token # NULL

\* ---------------------------------------------------------------- C19
\* the attachment fetches, solves and uploads the mounted view has started
\* and that have not finished
ViewOps == {op \in ops : op.inst = viewId /\ op.kind \in {"attachments", "solve", "upload"}}

BusyStatuses ==
    {"FETCHING_ATTACHMENTS", "SOLVING", "GENERATING_FILES", "ZIPPING", "UPLOADING_TO_DRIVE"}

\* C19: in the Drive-upload AssignmentView at most one of attachment fetch,
\* solve and upload is in flight, and one is in flight exactly in the
\* statuses FETCHING_ATTACHMENTS, SOLVING, GENERATING_FILES, ZIPPING and
\* UPLOADING_TO_DRIVE; while one is in flight no other starts, a Solve does
\* not start in any of these statuses and an Upload starts only in status
\* DONE.
C19_OneWorkflowAtATime ==
    [][ (version = "drive" /\ viewId' # 0) =>
            /\ Cardinality(ViewOps') <= 1
            /\ ViewOps' # {} <=> status' \in BusyStatuses
            /\ \A op \in ViewOps' :
                    IF viewId' = viewId /\ ViewOps # {}
                    THEN \E was \in ViewOps : was.kind = op.kind
                    ELSE /\ op.kind = "solve" => (SolveClick /\ status \notin BusyStatuses)
                         /\ op.kind = "upload" => (UploadClick /\ status = "DONE")
                         /\ op.kind = "attachments" => viewId' # viewId ]_vars

\* an upload of the view in flight
C19_Witness ==
    /\ version = "drive" /\ viewId # 0
    /\ status = "UPLOADING_TO_DRIVE"
    /\ \E op \in ViewOps : op.kind = "upload"

\* ---------------------------------------------------------------- C20
\* the steps of status that one handleSolve makes
SolveMoves ==
    {<<"SOLVING", "GENERATING_FILES">>, <<"GENERATING_FILES", "ZIPPING">>,
     <<"GENERATING_FILES", "DONE">>, <<"ZIPPING", "DONE">>,
     <<"SOLVING", "ERROR">>, <<"GENERATING_FILES", "ERROR">>, <<"ZIPPING", "ERROR">>}

\* C20: during one solve, status only moves forward: SOLVING, then
\* GENERATING_FILES only when the AI response was parsed, then ZIPPING if and
\* only if more than one file was generated, then DONE; ERROR can follow any
\* of them and ends the solve; SOLVING is entered only by a click on Solve.
C20_SolveMovesForward ==
    [][ (viewId' = viewId /\ viewId # 0 /\ status' # status) =>
            /\ status \in {"SOLVING", "GENERATING_FILES", "ZIPPING"} =>
                    /\ <<status, status'>> \in SolveMoves
                    /\ \E op \in ops : op.kind = "solve" /\ op.inst = viewId
            /\ status' = "SOLVING" => SolveClick
            /\ status' = "GENERATING_FILES" =>
                    \E op \in ops, files \in AiFileLists : AiResolved(op, files)
            /\ status' = "ZIPPING" =>
                    (status = "GENERATING_FILES" /\ Len(generatedFiles') > 1)
            /\ (status = "GENERATING_FILES" /\ status' = "DONE") =>
                    Len(generatedFiles') <= 1
            /\ (status \in {"SOLVING", "GENERATING_FILES", "ZIPPING"}
                    /\ status' \in {"DONE", "ERROR"}) =>
                    ~ \E op \in ops' : op.kind = "solve" /\ op.inst = viewId ]_vars

\* a solve that generated more than one file and is zipping them
C20_Witness ==
    /\ viewId # 0
    /\ status = "ZIPPING"
    /\ Len(generatedFiles) > 1
    /\ \E op \in ops : op.kind = "solve" /\ op.inst = viewId /\ op.pc = "zip"

\* ---------------------------------------------------------------- C21
\* C21: in the AssignmentView of both versions, after every handler step,
\* status is ERROR if and only if the error message is non-null.
C21_ErrorIffMessage ==
    viewId # 0 => (status = "ERROR" <=> error # NULL)

\* the Classroom-submit view after a submit whose Drive upload failed
C21_Witness ==
    /\ version = "submit" /\ viewId # 0
    /\ status = "ERROR"
    /\ error = SubmissionFailedMsg(DriveUploadFailedMsg)
    /\ Len(generatedFiles) > 0

\* ---------------------------------------------------------------- C22
\* the upload op of the mounted view is rejected by this step: the POST or
\* the metadata GET of one of its files fails and Promise.all had not yet
\* rejected
UploadRejects(op) ==
    /\ op.kind = "upload" /\ op.inst = viewId /\ viewId # 0 /\ ~op.settled
    /\ \E k \in 1..MaxUploadFiles + 1 : UploadPostFailed(op, k) \/ UploadMetadataFailed(op, k)

\* C22: when uploadFilesToDrive rejects, handleUploadToDrive sets status
\* ERROR with an "Upload failed: ..." message and leaves generatedFiles,
\* zipBlob and driveFileLinks as they are: the generated files are still
\* there and no Drive link is shown.
C22_FailedUploadKeepsFiles ==
    [][ ((\E op \in ops : UploadRejects(op)) \/ (UploadClick /\ token = NULL)) =>
            /\ status' = "ERROR"
            /\ error' = (IF UploadClick THEN UploadFailedMsg(NotAuthenticatedMsg)
                         ELSE IF \E op \in ops, k \in 1..MaxUploadFiles + 1 :
                                    UploadPostFailed(op, k)
                         THEN UploadFailedMsg(DriveUploadFailedMsg)
                         ELSE UploadFailedMsg(GapiErrorMsg))
            /\ generatedFiles' = generatedFiles /\ Len(generatedFiles') > 0
            /\ zipBlob' = zipBlob
            /\ driveFileLinks' = driveFileLinks /\ driveFileLinks' = <<>>
            /\ ~ \E op \in ops' : op.kind = "upload" /\ op.inst = viewId ]_vars

\* the Drive-upload view after the upload of the zip of two files failed
C22_Witness ==
    /\ version = "drive" /\ viewId # 0
    /\ status = "ERROR"
    /\ error = UploadFailedMsg(DriveUploadFailedMsg)
    /\ Len(generatedFiles) > 1 /\ zipBlob # Null
    /\ driveFileLinks = <<>>

\* ---------------------------------------------------------------- C23
\* name is title with each run of whitespace replaced by one '_', followed
\* by '_solution.zip': the positions of title that are not whitespace or
\* that begin a run of whitespace, in order
RunStarts(title) ==
    {k \in DOMAIN title : title[k] \in Whitespace => (k = 1 \/ title[k - 1] \notin Whitespace)}

IsZipNameOf(name, title) ==
    LET n == Cardinality(RunStarts(title))
        pos(j) == CHOOSE k \in RunStarts(title) :
                      Cardinality({i \in RunStarts(title) : i < k}) = j - 1
    IN /\ Len(name) = n + 3
       /\ \A j \in 1..n :
            name[j] = (IF title[pos(j)] \in Whitespace THEN "_" ELSE title[pos(j)])
       /\ name[n + 1] = "_solution" /\ name[n + 2] = "." /\ name[n + 3] = "zip"

\* C23: handleUploadToDrive uploads exactly one file, the zip named after
\* the assignment title with each run of whitespace replaced by '_' followed
\* by '_solution.zip', when a zip exists, and otherwise exactly the generated
\* files; when the upload succeeds driveFileLinks holds one link per uploaded
\* file, in order, and status is DONE.
C23_UploadsZipOrFiles ==
    [][ /\ (UploadClick /\ token # NULL) =>
            \E op \in ops' \ ops :
                /\ ops' = ops \cup {op}
                /\ op.kind = "upload" /\ op.inst = viewId
                /\ \A k \in DOMAIN op.files : op.pcs[k] = "post"
                /\ IF zipBlob # Null
                   THEN /\ Len(op.files) = 1
                        /\ IsZipNameOf(op.files[1], selectedAssignment[1].title)
                   ELSE /\ Len(op.files) = Len(generatedFiles)
                        /\ \A k \in DOMAIN op.files : op.files[k] = generatedFiles[k].name
        /\ \A op \in ops :
            (/\ op.kind = "upload" /\ op.inst = viewId /\ viewId # 0 /\ ~op.settled
             /\ \E k \in 1..MaxUploadFiles + 1 :
                    /\ UploadMetadataOk(op, k)
                    /\ \A j \in DOMAIN op.pcs \ {k} : op.pcs[j] = "done") =>
                /\ status' = "DONE"
                /\ Len(driveFileLinks') = Len(op.files)
                /\ \A k \in DOMAIN op.files : driveFileLinks'[k].name = op.files[k]
        /\ (viewId' = viewId /\ driveFileLinks' # driveFileLinks /\ driveFileLinks' # <<>>) =>
                \E op \in ops, k \in 1..MaxUploadFiles + 1 : UploadMetadataOk(op, k) ]_vars

\* the zip of the assignment "Lab \t1" was uploaded: one link, named with a
\* single '_' for the run of two whitespace characters
C23_Witness ==
    /\ version = "drive" /\ viewId # 0
    /\ status = "DONE"
    /\ zipBlob # Null
    /\ Len(driveFileLinks) = 1
    /\ driveFileLinks[1].name = <<"Lab", "_", "1", "_solution", ".", "zip">>

\* ---------------------------------------------------------------- C24
\* the getCourses call of the mounted Dashboard
OwnGetCourses(op) == op.kind = "getCourses" /\ op.inst = dashId /\ dashId # 0

\* C24: getCourses returns one Course per course of the list response, in
\* the order of the response; a failed teacher lookup does not reject
\* getCourses and changes nothing for the other courses, its course gets the
\* teacher 'N/A'; getCourses rejects only when the courses.list request fails.
C24_CoursesWithTeachers ==
    [][ /\ \A op \in ops, list \in CourseLists :
            (OwnGetCourses(op) /\ CoursesListResolved(op, list)) =>
                /\ dashError' = dashError
                /\ IF list = <<>>
                   THEN courses' = <<>> /\ ~isCoursesLoading'
                   ELSE /\ courses' = courses /\ isCoursesLoading'
                        /\ \E new \in ops' :
                              /\ OwnGetCourses(new) /\ new.list = list
                              /\ DOMAIN new.teacher = DOMAIN list
                              /\ \A k \in DOMAIN list : new.teacher[k] = "pending"
        /\ \A op \in ops, i \in 1..2 :
            (OwnGetCourses(op) /\ TeacherRejected(op, i)) =>
                /\ dashError' = dashError
                /\ IF \E j \in DOMAIN op.teacher \ {i} : op.teacher[j] = "pending"
                   THEN /\ courses' = courses /\ isCoursesLoading'
                        /\ \E new \in ops' :
                              /\ OwnGetCourses(new) /\ new.list = op.list
                              /\ new.teacher[i] = "N/A"
                              /\ \A j \in DOMAIN op.teacher \ {i} :
                                    new.teacher[j] = op.teacher[j]
                   ELSE /\ ~isCoursesLoading'
                        /\ Len(courses') = Len(op.list)
                        /\ \A k \in DOMAIN op.list : courses'[k].id = op.list[k]
                        /\ courses'[i].teacher = "N/A"
                        /\ \A j \in DOMAIN op.teacher \ {i} :
                              courses'[j].teacher = op.teacher[j]
        /\ (dashId' = dashId /\ courses' # courses) =>
                \E op \in ops :
                    /\ OwnGetCourses(op) /\ op.pc = "teachers"
                    /\ Len(courses') = Len(op.list)
                    /\ \A k \in DOMAIN op.list : courses'[k].id = op.list[k]
        /\ (dashId' = dashId /\ dashError' = CoursesErrorMsg /\ dashError # CoursesErrorMsg) =>
                \E op \in ops : OwnGetCourses(op) /\ CoursesListRejected(op) ]_vars

\* getCourses returned both courses of the response in order, the second
\* with teacher 'N/A', and the Dashboard shows no error
C24_Witness ==
    /\ dashId # 0
    /\ courses = CoursesWithTeachers(<<"c1", "c2">>, <<"teacher-name", "N/A">>)
    /\ ~isCoursesLoading
    /\ dashError = NULL

====
